---- MODULE Spec2Model ----
(***************************************************************************)
(* A model of lazystuff.lazylist (src/lazystuff/lazylist.py).              *)
(*                                                                         *)
(* Python objects live in a heap (a sequence of records, an object's id is *)
(* its index): plain lists, upstream iterators, itertools.tee objects and  *)
(* their shared buffers, _lazy_reversed generators and lazylist iterators. *)
(* The lazylist objects themselves are the two slots of ll.  A "world" is  *)
(* the pair [heap, ll]; every method of the class is an operator from a    *)
(* world to a result [w, st, val]: the world after the call, how the call  *)
(* ended ("ok", "stop" for StopIteration, "raise" for a failure of an      *)
(* upstream source, "index" for IndexError, "over" when the call would run *)
(* beyond the modelled window of an infinite source, "recursion" for a     *)
(* RecursionError) and its value.                                          *)
(***************************************************************************)
EXTENDS Integers, Sequences, FiniteSets, TLC

VARIABLES heap, ll, its, last, fresh, fork, dct
vars == <<heap, ll, its, last, fresh, fork, dct>>

(*************************** bounds of the model ***************************)
MaxHeap == 14
MaxLen == 2
MaxOps == 2
MaxIdx == 3
MaxCount == 2
MaxIters == 1
InfWindow == 3

Names == {"x", "y"}

\* the lazylist objects: the caller's, the result of a concatenation, and
\* the copy of the right operand that the concatenation makes
Objs == Names \cup {"z", "t"}
None == 0

(****************************** helpers ************************************)
Rev(s) == [i \in 1..Len(s) |-> s[Len(s) + 1 - i]]

Tl(s) == SubSeq(s, 2, Len(s))

From(s, p) == SubSeq(s, p + 1, Len(s))

\* v bound to the parameter of F: the result of a call, used in what follows
With(v, F(_)) == F(v)

(****************************** the heap ***********************************)
\* kind "list":   buf is the list's contents; st is "caller" for a list
\*                that the caller holds and passed as an argument
\* kind "src":    an upstream iterator: buf its data, pos the number of
\*                elements produced so far, inf whether it never ends
\*                (then buf is the modelled window), fail the position at
\*                which its next call fails once (-1: never)
\* kind "teebuf": the buffer shared by the tee objects of one iterator:
\*                inner the iterator, buf what was pulled from it so far
\* kind "tee":    an itertools.tee object: inner its teebuf, pos its cursor
\* kind "rev":    a _lazy_reversed generator: inner the wrapped object,
\*                st "new" (not started), "run" or "done", buf the
\*                reversed contents once started, pos its cursor
\* kind "llit":   a _lazylist_iterator: name its lazylist, pos _next_index
Obj(kind, buf, pos, inner) ==
    [kind |-> kind, buf |-> buf, pos |-> pos, inner |-> inner,
     st |-> "new", fail |-> -1, inf |-> FALSE, name |-> "x"]

NewList(buf) == Obj("list", buf, 0, None)

NewSrc(buf, fail, inf) ==
    [Obj("src", buf, 0, None) EXCEPT !.fail = fail, !.inf = inf]

NewLlit(name) == [Obj("llit", <<>>, 0, None) EXCEPT !.name = name]

Alloc(w, o) == [w EXCEPT !.heap = Append(@, o)]

IsList(w, id) == w.heap[id].kind = "list"

R(w, st, val) == [w |-> w, st |-> st, val |-> val]

\* the lazylist object before __init__ has run
Absent == [live |-> FALSE, strict |-> None, tail |-> None, tails |-> <<>>]

StrictOf(w, c) == w.heap[w.ll[c].strict].buf

SetStrict(w, c, buf) == [w EXCEPT !.heap[w.ll[c].strict].buf = buf]

(************************* the strictness engine ***************************)
NoIdx == [t |-> "none"]

Idx(i) == [t |-> "int", i |-> i]

\* slice(start, stop, step): each of the three is <<>> for None or <<n>>
Sl(start, stop, step) == [t |-> "slice", start |-> start, stop |-> stop, step |-> step]

\* slice.indices(n): the slice's start, stop and step for a sequence of
\* length n (the step is not 0)
SliceIndices(sl, n) ==
    LET step == IF sl.step = <<>> THEN 1 ELSE sl.step[1]
        lower == IF step < 0 THEN -1 ELSE 0
        upper == IF step < 0 THEN n - 1 ELSE n
        Clip(v) == IF v < 0
                   THEN (IF v + n < lower THEN lower ELSE v + n)
                   ELSE (IF v > upper THEN upper ELSE v)
    IN  [start |-> IF sl.start = <<>> THEN (IF step < 0 THEN upper ELSE lower)
                   ELSE Clip(sl.start[1]),
         stop |-> IF sl.stop = <<>> THEN (IF step < 0 THEN lower ELSE upper)
                  ELSE Clip(sl.stop[1]),
         step |-> step]

\* sys.maxsize; every index of the model is far below it
MaxSize == 1000

RECURSIVE AdvanceLoop(_, _)
AdvanceLoop(w, c) ==
    LET l == w.ll[c]
    IN  IF l.tails # <<>> /\ l.tail = None
        THEN LET tail == Head(l.tails)
                 w1 == [w EXCEPT !.ll[c].tails = Tl(@)]
             IN  IF IsList(w1, tail)
                 THEN AdvanceLoop([w1 EXCEPT !.heap[l.strict].buf =
                                                 @ \o w1.heap[tail].buf], c)
                 ELSE AdvanceLoop([w1 EXCEPT !.ll[c].tail = tail], c)
        ELSE w

\* a slip: a pending list is taken off the queue without being spliced
RECURSIVE AdvanceDrop(_, _)
AdvanceDrop(w, c) ==
    LET l == w.ll[c]
        w0 == [w EXCEPT !.ll[c].tail = None]
    IN  IF l.tails = <<>> THEN w0
        ELSE IF IsList(w, Head(l.tails))
        THEN AdvanceDrop([w0 EXCEPT !.ll[c].tails = Tl(@)], c)
        ELSE [w0 EXCEPT !.ll[c].tail = Head(l.tails), !.ll[c].tails = Tl(@)]

\* a slip: the first pending entry becomes the active source, a list too
advance_first(w, c) ==
    LET l == w.ll[c]
    IN  IF l.tails = <<>> THEN [w EXCEPT !.ll[c].tail = None]
        ELSE [w EXCEPT !.ll[c].tail = Head(l.tails), !.ll[c].tails = Tl(@)]

advance_tail(w, c) == AdvanceLoop([w EXCEPT !.ll[c].tail = None], c)

RECURSIVE NextIt(_, _), Drain(_, _, _), StrictLoop(_, _, _), AllLoop(_, _, _),
          make_strict(_, _, _)

\* next() of an upstream iterator
NextSrc(w, id) ==
    LET o == w.heap[id]
    IN  IF o.fail = o.pos
        THEN R([w EXCEPT !.heap[id].fail = -1], "raise", 0)
        ELSE IF o.pos < Len(o.buf)
        THEN R([w EXCEPT !.heap[id].pos = @ + 1], "ok", o.buf[o.pos + 1])
        ELSE IF o.inf THEN R(w, "over", 0) ELSE R(w, "stop", 0)

\* next() of an itertools.tee object
NextTee(w, id) ==
    LET o == w.heap[id]
        b == w.heap[o.inner]
    IN  IF o.pos < Len(b.buf)
        THEN R([w EXCEPT !.heap[id].pos = @ + 1], "ok", b.buf[o.pos + 1])
        ELSE With(NextIt(w, b.inner), LAMBDA r :
                 IF r.st = "ok"
                 THEN R([r.w EXCEPT !.heap[o.inner].buf = Append(@, r.val),
                                    !.heap[id].pos = @ + 1], "ok", r.val)
                 ELSE r)

RevRun(w, id) ==
    LET o == w.heap[id]
    IN  IF o.pos < Len(o.buf)
        THEN R([w EXCEPT !.heap[id].pos = @ + 1], "ok", o.buf[o.pos + 1])
        ELSE R([w EXCEPT !.heap[id].st = "done"], "stop", 0)

\* next() of a _lazy_reversed generator
lazy_reversed(w, id) ==
    LET o == w.heap[id]
    IN  IF o.st = "new"
        THEN IF IsList(w, o.inner)
             THEN RevRun([w EXCEPT !.heap[id].st = "run",
                                   !.heap[id].buf = Rev(w.heap[o.inner].buf)], id)
             ELSE With(Drain(w, o.inner, <<>>), LAMBDA d :
                      IF d.st = "ok"
                      THEN RevRun([d.w EXCEPT !.heap[id].st = "run",
                                              !.heap[id].buf = Rev(d.val)], id)
                      ELSE R([d.w EXCEPT !.heap[id].st = "done"], d.st, 0))
        ELSE IF o.st = "run" THEN RevRun(w, id)
        ELSE R(w, "stop", 0)

\* list.__getitem__ with an integer
ListGet(buf, i) ==
    LET j == IF i < 0 THEN i + Len(buf) ELSE i
    IN  IF j < 0 \/ j >= Len(buf) THEN [st |-> "index", val |-> 0]
        ELSE [st |-> "ok", val |-> buf[j + 1]]

\* a slip: an index past the end gives the last element
getitem_clip(w, c, i) ==
    With(make_strict(w, c, Idx(i)), LAMBDA m :
        IF m.st # "ok" THEN m
        ELSE LET buf == StrictOf(m.w, c)
                 g == ListGet(buf, IF i >= Len(buf) /\ buf # <<>> THEN Len(buf) - 1 ELSE i)
             IN  R(m.w, g.st, g.val))

\* lazylist.__getitem__ with an integer
getitem(w, c, i) ==
    With(make_strict(w, c, Idx(i)), LAMBDA m :
        IF m.st # "ok" THEN m
        ELSE LET g == ListGet(StrictOf(m.w, c), i)
             IN  R(m.w, g.st, g.val))

\* a slip: the iterator materializes one position ahead of the one it
\* yields
LlitStepAhead(w, c, pos) ==
    With(make_strict(w, c, Idx(pos + 1)), LAMBDA m :
        IF m.st # "ok" THEN m
        ELSE With(getitem(m.w, c, pos), LAMBDA g :
                 IF g.st = "index" THEN R(g.w, "stop", 0) ELSE g))

\* _lazylist_iterator.__next__ for the iterator over lazylist c whose
\* _next_index is pos; val is the element, the caller advances _next_index
LlitStep(w, c, pos) ==
    With(make_strict(w, c, Idx(pos)), LAMBDA m :
        IF m.st # "ok" THEN m
        ELSE With(getitem(m.w, c, pos), LAMBDA g :
                 IF g.st = "index" THEN R(g.w, "stop", 0) ELSE g))

\* a slip: the iterator pulls its element itself, whatever the container
\* already holds
LlitNextOwn(w, id) ==
    LET c == w.heap[id].name
        l == w.ll[c]
    IN  IF l.tail = None THEN LlitStep(w, c, w.heap[id].pos)
        ELSE With(NextIt(w, l.tail), LAMBDA r :
                 IF r.st = "ok"
                 THEN R([r.w EXCEPT !.heap[id].pos = @ + 1,
                                    !.heap[l.strict].buf = Append(@, r.val)],
                        "ok", r.val)
                 ELSE r)

\* lazylist._lazylist_iterator.__next__: the iterator object moves on
\* (st is "run" while the call is on the stack: a call that re-enters the
\* iterator finds the container as the outer call found it and re-enters
\* again, without end, which Python ends with a RecursionError)
LlitNext(w, id) ==
    IF w.heap[id].st = "run" THEN R(w, "recursion", 0)
    ELSE With(LlitStep([w EXCEPT !.heap[id].st = "run"], w.heap[id].name,
                       w.heap[id].pos), LAMBDA r :
             IF r.st = "ok"
             THEN R([r.w EXCEPT !.heap[id].pos = @ + 1, !.heap[id].st = "new"],
                    "ok", r.val)
             ELSE R([r.w EXCEPT !.heap[id].st = "new"], r.st, r.val))

NextIt(w, id) ==
    LET k == w.heap[id].kind
    IN  IF k = "src" THEN NextSrc(w, id)
        ELSE IF k = "tee" THEN NextTee(w, id)
        ELSE IF k = "rev" THEN lazy_reversed(w, id)
        ELSE LlitNext(w, id)

\* list(iterable)
Drain(w, id, acc) ==
    IF IsList(w, id) THEN R(w, "ok", w.heap[id].buf)
    ELSE With(NextIt(w, id), LAMBDA r :
             IF r.st = "ok" THEN Drain(r.w, id, Append(acc, r.val))
             ELSE IF r.st = "stop" THEN R(r.w, "ok", acc)
             ELSE R(r.w, r.st, acc))

\* a slip: the loop pulls one element more than the index asks for
RECURSIVE StrictLoopOver(_, _, _)
StrictLoopOver(w, c, i) ==
    LET l == w.ll[c]
    IN  IF l.tail # None /\ Len(w.heap[l.strict].buf) <= i + 1
        THEN With(NextIt(w, l.tail), LAMBDA r :
                 IF r.st = "ok"
                 THEN StrictLoopOver([r.w EXCEPT !.heap[l.strict].buf =
                                                     Append(@, r.val)], c, i)
                 ELSE IF r.st = "stop" THEN StrictLoopOver(advance_tail(r.w, c), c, i)
                 ELSE R(r.w, r.st, 0))
        ELSE R(w, "ok", 0)

\* a slip: the loop stops one element short of the index
RECURSIVE StrictLoopShort(_, _, _)
StrictLoopShort(w, c, i) ==
    LET l == w.ll[c]
    IN  IF l.tail # None /\ Len(w.heap[l.strict].buf) < i
        THEN With(NextIt(w, l.tail), LAMBDA r :
                 IF r.st = "ok"
                 THEN StrictLoopShort([r.w EXCEPT !.heap[l.strict].buf =
                                                      Append(@, r.val)], c, i)
                 ELSE IF r.st = "stop" THEN StrictLoopShort(advance_tail(r.w, c), c, i)
                 ELSE R(r.w, r.st, 0))
        ELSE R(w, "ok", 0)

\* the loop of _make_strict for a non-negative index
StrictLoop(w, c, i) ==
    LET l == w.ll[c]
    IN  IF l.tail # None /\ Len(w.heap[l.strict].buf) <= i
        THEN With(NextIt(w, l.tail), LAMBDA r :
                 IF r.st = "ok"
                 THEN StrictLoop([r.w EXCEPT !.heap[l.strict].buf =
                                                 Append(@, r.val)], c, i)
                 ELSE IF r.st = "stop" THEN StrictLoop(advance_tail(r.w, c), c, i)
                 ELSE R(r.w, r.st, 0))
        ELSE R(w, "ok", 0)

\* the loop of _make_strict(None) over the deque, k the place reached in it
AllLoop(w, c, k) ==
    LET l == w.ll[c]
    IN  IF k > Len(l.tails)
        THEN R([w EXCEPT !.ll[c].tails = <<>>, !.ll[c].tail = None], "ok", 0)
        ELSE With(Drain(w, l.tails[k], <<>>), LAMBDA d :
                 IF d.st = "ok"
                 THEN AllLoop([d.w EXCEPT !.heap[l.strict].buf = @ \o d.val], c, k + 1)
                 ELSE R(d.w, d.st, 0))

\* the one index a slice asks for by the rule "stop - 1 for a positive step,
\* start for a negative step, everything when that bound is not given"
SliceNeeds(sl) ==
    IF sl.step = <<>> \/ sl.step[1] > 0
    THEN (IF sl.stop = <<>> THEN NoIdx ELSE Idx(sl.stop[1] - 1))
    ELSE (IF sl.start = <<>> THEN NoIdx ELSE Idx(sl.start[1]))

\* a slip: forcing everything leaves out what is left of the active tail
make_strict_pending(w, c, index) ==
    LET l == w.ll[c]
    IN  IF l.tail = None THEN R(w, "ok", 0)
        ELSE IF index.t = "none" THEN AllLoop(w, c, 1)
        ELSE IF index.t = "slice" THEN make_strict(w, c, SliceNeeds(index))
        ELSE IF index.i < 0 THEN make_strict(w, c, NoIdx)
        ELSE StrictLoop(w, c, index.i)

make_strict(w, c, index) ==
    LET l == w.ll[c]
    IN  IF l.tail = None THEN R(w, "ok", 0)
        ELSE IF index.t = "none"
        THEN AllLoop([w EXCEPT !.ll[c].tails = <<l.tail>> \o @], c, 1)
        ELSE IF index.t = "slice"
        THEN LET ix == SliceIndices(index, MaxSize)
             IN  IF ix.step > 0 /\ ix.start < ix.stop
                 THEN make_strict(w, c, IF index.stop = <<>> THEN NoIdx
                                        ELSE IF index.stop[1] # 0
                                        THEN Idx(index.stop[1] - 1)
                                        ELSE Idx(0))
                 ELSE IF ix.step < 0 /\ ix.start > ix.stop
                 THEN make_strict(w, c, IF index.start = <<>> THEN NoIdx
                                        ELSE Idx(index.start[1]))
                 ELSE R(w, "ok", 0)
        ELSE IF index.i < 0 THEN make_strict(w, c, NoIdx)
        ELSE StrictLoop(w, c, index.i)

is_strict(w, c) == w.ll[c].tail = None /\ w.ll[c].tails = <<>>

(************************** source management ******************************)
\* lazylist.__init__ without an iterable
init(w, c) ==
    LET w1 == Alloc(w, NewList(<<>>))
    IN  [w1 EXCEPT !.ll[c] = [live |-> TRUE, strict |-> Len(w1.heap),
                              tail |-> None, tails |-> <<>>]]

\* a slip: the new tail is advanced into even when a tail is active, and
\* the first element is fetched at once
add_tail_eager(w, c, other) ==
    LET w1 == [w EXCEPT !.ll[c].tails = Append(@, other)]
        w2 == IF w1.ll[c].tail = None THEN advance_tail(w1, c) ELSE w1
    IN  make_strict(w2, c, Idx(Len(StrictOf(w2, c)))).w

\* a slip: the caller's list is queued itself, not a copy of it
add_tail_alias(w, c, other) ==
    LET w1 == [w EXCEPT !.ll[c].tails = Append(@, other)]
    IN  IF w1.ll[c].tail = None THEN advance_tail(w1, c) ELSE w1

\* _add_tail; other is the heap id of the caller's list or iterator
add_tail(w, c, other) ==
    LET w1 == IF IsList(w, other)
              THEN LET wc == Alloc(w, NewList(w.heap[other].buf))
                   IN  [wc EXCEPT !.ll[c].tails = Append(@, Len(wc.heap))]
              ELSE [w EXCEPT !.ll[c].tails = Append(@, other)]
    IN  IF w1.ll[c].tail = None THEN advance_tail(w1, c) ELSE w1

\* a slip: behind a lazy part the value is always queued as a new source
append_queued(w, c, value) ==
    IF is_strict(w, c)
    THEN [w EXCEPT !.heap[w.ll[c].strict].buf = Append(@, value)]
    ELSE LET w1 == Alloc(w, NewList(<<value>>))
         IN  add_tail(w1, c, Len(w1.heap))

\* lazylist.append
append(w, c, value) ==
    LET l == w.ll[c]
    IN  IF is_strict(w, c)
        THEN [w EXCEPT !.heap[l.strict].buf = Append(@, value)]
        ELSE IF l.tails # <<>> /\ IsList(w, l.tails[Len(l.tails)])
        THEN [w EXCEPT !.heap[l.tails[Len(l.tails)]].buf = Append(@, value)]
        ELSE LET w1 == Alloc(w, NewList(<<value>>))
             IN  add_tail(w1, c, Len(w1.heap))

(************************* indexing and mutation ***************************)
\* del list[i]
ListDel(buf, i) ==
    LET j == IF i < 0 THEN i + Len(buf) ELSE i
    IN  IF j < 0 \/ j >= Len(buf) THEN [st |-> "index", val |-> buf]
        ELSE [st |-> "ok", val |-> SubSeq(buf, 1, j) \o SubSeq(buf, j + 2, Len(buf))]

\* list[i] = v
ListSet(buf, i, v) ==
    LET j == IF i < 0 THEN i + Len(buf) ELSE i
    IN  IF j < 0 \/ j >= Len(buf) THEN [st |-> "index", val |-> buf]
        ELSE [st |-> "ok", val |-> [buf EXCEPT ![j + 1] = v]]

\* a slip: the whole container is forced before the deletion
delitem_forced(w, c, i) ==
    With(make_strict(w, c, NoIdx), LAMBDA m :
        IF m.st # "ok" THEN m
        ELSE LET d == ListDel(StrictOf(m.w, c), i)
             IN  R(SetStrict(m.w, c, d.val), d.st, 0))

delitem(w, c, i) ==
    With(make_strict(w, c, Idx(i)), LAMBDA m :
        IF m.st # "ok" THEN m
        ELSE LET d == ListDel(StrictOf(m.w, c), i)
             IN  R(SetStrict(m.w, c, d.val), d.st, 0))

setitem(w, c, i, v) ==
    With(make_strict(w, c, Idx(i)), LAMBDA m :
        IF m.st # "ok" THEN m
        ELSE LET d == ListSet(StrictOf(m.w, c), i, v)
             IN  R(SetStrict(m.w, c, d.val), d.st, 0))

\* range(start, stop, step) of a slice over a list of length n
SliceRange(sl, n) ==
    LET ix == SliceIndices(sl, n)
        cnt == IF ix.step > 0 /\ ix.start < ix.stop
               THEN (ix.stop - ix.start - 1) \div ix.step + 1
               ELSE IF ix.step < 0 /\ ix.start > ix.stop
               THEN (ix.start - ix.stop - 1) \div (0 - ix.step) + 1
               ELSE 0
    IN  [k \in 1..cnt |-> ix.start + (k - 1) * ix.step]

\* list[slice]
ListGetSlice(buf, sl) ==
    LET rg == SliceRange(sl, Len(buf))
    IN  [k \in 1..Len(rg) |-> buf[rg[k] + 1]]

Keep(buf, drop) ==
    LET F[k \in 0..Len(buf)] ==
            IF k = 0 THEN <<>>
            ELSE IF (k - 1) \in drop THEN F[k - 1] ELSE Append(F[k - 1], buf[k])
    IN  F[Len(buf)]

\* del list[slice]
ListDelSlice(buf, sl) ==
    LET rg == SliceRange(sl, Len(buf))
    IN  Keep(buf, {rg[k] : k \in 1..Len(rg)})

\* list[slice] = values: a slice of step 1 is replaced by the values, an
\* extended slice takes as many values as it has places (else ValueError)
ListSetSlice(buf, sl, vals) ==
    LET ix == SliceIndices(sl, Len(buf))
        rg == SliceRange(sl, Len(buf))
        hi == IF ix.stop < ix.start THEN ix.start ELSE ix.stop
    IN  IF ix.step = 1
        THEN [st |-> "ok", val |-> SubSeq(buf, 1, ix.start) \o vals \o From(buf, hi)]
        ELSE IF Len(rg) # Len(vals) THEN [st |-> "value", val |-> buf]
        ELSE [st |-> "ok",
              val |-> [k \in 1..Len(buf) |->
                         IF \E j \in 1..Len(rg) : rg[j] = k - 1
                         THEN vals[CHOOSE j \in 1..Len(rg) : rg[j] = k - 1]
                         ELSE buf[k]]]

\* __getitem__ with a slice
getitem_slice(w, c, sl) ==
    With(make_strict(w, c, sl), LAMBDA m :
        IF m.st # "ok" THEN m ELSE R(m.w, "ok", ListGetSlice(StrictOf(m.w, c), sl)))

\* __delitem__ with a slice
delitem_slice(w, c, sl) ==
    With(make_strict(w, c, sl), LAMBDA m :
        IF m.st # "ok" THEN m
        ELSE R(SetStrict(m.w, c, ListDelSlice(StrictOf(m.w, c), sl)), "ok", 0))

\* __setitem__ with a slice and a list of values
setitem_slice(w, c, sl, vals) ==
    With(make_strict(w, c, sl), LAMBDA m :
        IF m.st # "ok" THEN m
        ELSE LET d == ListSetSlice(StrictOf(m.w, c), sl, vals)
             IN  R(SetStrict(m.w, c, d.val), d.st, 0))

\* list.insert(index, value)
ListInsert(buf, i, v) ==
    LET k == IF i < 0 THEN (IF Len(buf) + i < 0 THEN 0 ELSE Len(buf) + i)
             ELSE IF i > Len(buf) THEN Len(buf) ELSE i
    IN  SubSeq(buf, 1, k) \o <<v>> \o SubSeq(buf, k + 1, Len(buf))

\* lazylist.insert
insert(w, c, i, v) ==
    With(make_strict(w, c, Idx(i - 1)), LAMBDA m :
        IF m.st # "ok" THEN m
        ELSE R(SetStrict(m.w, c, ListInsert(StrictOf(m.w, c), i, v)), "ok", 0))

\* a slip: the boolean test materializes everything, as len() does
bool_all(w, c) ==
    With(make_strict(w, c, NoIdx), LAMBDA m :
        IF m.st # "ok" THEN m ELSE R(m.w, "ok", StrictOf(m.w, c) # <<>>))

\* lazylist.__bool__
\* list.pop(index)
ListPop(buf, i) ==
    LET j == IF i < 0 THEN i + Len(buf) ELSE i
    IN  IF j < 0 \/ j >= Len(buf) THEN [st |-> "index", val |-> 0, rest |-> buf]
        ELSE [st |-> "ok", val |-> buf[j + 1],
              rest |-> SubSeq(buf, 1, j) \o SubSeq(buf, j + 2, Len(buf))]

\* a slip: the index is used for materializing only, the last element is
\* popped
pop_last(w, c, i) ==
    With(make_strict(w, c, IF i > 0 THEN Idx(i) ELSE NoIdx), LAMBDA m :
        IF m.st # "ok" THEN m
        ELSE LET p == ListPop(StrictOf(m.w, c), -1)
             IN  R(SetStrict(m.w, c, p.rest), p.st, p.val))

\* a slip: the active source is dropped, the queue is kept
clear_active(w, c) ==
    [w EXCEPT !.heap[w.ll[c].strict].buf = <<>>, !.ll[c].tail = None]

\* lazylist.clear
clear(w, c) ==
    [w EXCEPT !.heap[w.ll[c].strict].buf = <<>>,
              !.ll[c].tail = None,
              !.ll[c].tails = <<>>]

\* lazylist.pop
pop(w, c, i) ==
    With(make_strict(w, c, IF i > 0 THEN Idx(i) ELSE NoIdx), LAMBDA m :
        IF m.st # "ok" THEN m
        ELSE LET p == ListPop(StrictOf(m.w, c), i)
             IN  R(SetStrict(m.w, c, p.rest), p.st, p.val))

bool(w, c) ==
    With(make_strict(w, c, Idx(0)), LAMBDA m :
        IF m.st # "ok" THEN m ELSE R(m.w, "ok", StrictOf(m.w, c) # <<>>))

len(w, c) ==
    With(make_strict(w, c, NoIdx), LAMBDA m :
        IF m.st # "ok" THEN m ELSE R(m.w, "ok", Len(StrictOf(m.w, c))))

(************************ searching and comparing ***************************)
Has(buf, v) == \E k \in 1..Len(buf) : buf[k] = v

\* element in iter(self): a fresh iterator, stepped from position k
RECURSIVE InIter(_, _, _, _)
InIter(w, c, v, k) ==
    With(LlitStep(w, c, k), LAMBDA r :
        IF r.st = "ok"
        THEN IF r.val = v THEN R(r.w, "ok", TRUE) ELSE InIter(r.w, c, v, k + 1)
        ELSE IF r.st = "stop" THEN R(r.w, "ok", FALSE)
        ELSE r)

\* a slip: everything is materialized before the strict store is searched
contains_full(w, c, v) ==
    With(make_strict(w, c, NoIdx), LAMBDA m :
        IF m.st # "ok" THEN m ELSE R(m.w, "ok", Has(StrictOf(m.w, c), v)))

\* lazylist.__contains__
contains(w, c, v) ==
    IF Has(StrictOf(w, c), v) THEN R(w, "ok", TRUE) ELSE InIter(w, c, v, 0)

\* list.index(value, start, stop)
ListIndex(buf, v, start, stop) ==
    LET n == Len(buf)
        a == IF start < 0 THEN (IF start + n < 0 THEN 0 ELSE start + n) ELSE start
        b0 == IF stop < 0 THEN (IF stop + n < 0 THEN 0 ELSE stop + n) ELSE stop
        b == IF b0 > n THEN n ELSE b0
        hits == {k \in 0..(n - 1) : a <= k /\ k < b /\ buf[k + 1] = v}
    IN  IF hits = {} THEN [st |-> "value", val |-> 0]
        ELSE [st |-> "ok", val |-> CHOOSE k \in hits : \A j \in hits : k <= j]

\* the loop of index over enumerate(self)
RECURSIVE IndexLoop(_, _, _, _, _, _)
IndexLoop(w, c, v, start, stop, k) ==
    With(LlitStep(w, c, k), LAMBDA r :
        IF r.st = "ok"
        THEN IF start <= k /\ k <= stop /\ v = r.val THEN R(r.w, "ok", k)
             ELSE IndexLoop(r.w, c, v, start, stop, k + 1)
        ELSE IF r.st = "stop" THEN R(r.w, "value", 0)
        ELSE r)

index(w, c, v, start, stop) ==
    IF is_strict(w, c)
    THEN LET f == ListIndex(StrictOf(w, c), v, start, stop)
         IN  R(w, f.st, f.val)
    ELSE IndexLoop(w, c, v, start, stop, 0)

\* An element of a type that defines no ordering with the integers (None,
\* say): it equals only itself, and elem1 < elem2 with it is a TypeError.
\* It is written as an integer that none of the data and none of the
\* callers' values is.
NoOrder == -100

Orderable(a, b) == a # NoOrder /\ b # NoOrder

\* the loop of __cmp__ of lazylist c with lazylist d, both iterators at k
RECURSIVE CmpLoop(_, _, _, _)
CmpLoop(w, c, d, k) ==
    With(LlitStep(w, c, k), LAMBDA r1 :
        IF r1.st \in {"ok", "stop"}
        THEN With(LlitStep(r1.w, d, k), LAMBDA r2 :
                 IF r1.st = "ok"
                 THEN IF r2.st = "ok"
                      THEN IF r1.val = r2.val THEN CmpLoop(r2.w, c, d, k + 1)
                           ELSE IF ~Orderable(r1.val, r2.val) THEN R(r2.w, "type", 0)
                           ELSE IF r1.val < r2.val THEN R(r2.w, "ok", -1)
                           ELSE R(r2.w, "ok", 1)
                      ELSE IF r2.st = "stop" THEN R(r2.w, "ok", 1)
                      ELSE r2
                 ELSE IF r2.st = "ok" THEN R(r2.w, "ok", -1)
                 ELSE IF r2.st = "stop" THEN R(r2.w, "ok", 0)
                 ELSE r2)
        ELSE r1)

\* a slip: both sides are materialized before they are compared
cmp_eager(w, c, d) ==
    With(make_strict(w, c, NoIdx), LAMBDA m1 :
        IF m1.st # "ok" THEN m1
        ELSE With(make_strict(m1.w, d, NoIdx), LAMBDA m2 :
                 IF m2.st # "ok" THEN m2 ELSE CmpLoop(m2.w, c, d, 0)))

\* lazylist.__cmp__ with a lazylist
cmp(w, c, d) == CmpLoop(w, c, d, 0)

\* next() of enumerate(other) for a plain list other, at index k
ListStep(w, buf, k) ==
    IF k < Len(buf) THEN R(w, "ok", buf[k + 1]) ELSE R(w, "stop", 0)

\* a slip: the comparison stops at the end of the shorter side and calls
\* the two equal
RECURSIVE CmpListShort(_, _, _, _)
CmpListShort(w, c, buf, k) ==
    With(LlitStep(w, c, k), LAMBDA r1 :
        IF r1.st \in {"ok", "stop"}
        THEN LET r2 == ListStep(r1.w, buf, k)
             IN  IF r1.st = "ok" /\ r2.st = "ok"
                 THEN IF r1.val = r2.val THEN CmpListShort(r2.w, c, buf, k + 1)
                      ELSE IF ~Orderable(r1.val, r2.val) THEN R(r2.w, "type", 0)
                      ELSE IF r1.val < r2.val THEN R(r2.w, "ok", -1)
                      ELSE R(r2.w, "ok", 1)
                 ELSE R(r2.w, "ok", 0)
        ELSE r1)

\* the loop of __cmp__ of lazylist c with the plain list buf
RECURSIVE CmpListLoop(_, _, _, _)
CmpListLoop(w, c, buf, k) ==
    With(LlitStep(w, c, k), LAMBDA r1 :
        IF r1.st \in {"ok", "stop"}
        THEN LET r2 == ListStep(r1.w, buf, k)
             IN  IF r1.st = "ok"
                 THEN IF r2.st = "ok"
                      THEN IF r1.val = r2.val THEN CmpListLoop(r2.w, c, buf, k + 1)
                           ELSE IF ~Orderable(r1.val, r2.val) THEN R(r2.w, "type", 0)
                           ELSE IF r1.val < r2.val THEN R(r2.w, "ok", -1)
                           ELSE R(r2.w, "ok", 1)
                      ELSE R(r2.w, "ok", 1)
                 ELSE IF r2.st = "ok" THEN R(r2.w, "ok", -1)
                 ELSE R(r2.w, "ok", 0)
        ELSE r1)

cmp_list(w, c, buf) == CmpListLoop(w, c, buf, 0)

\* the other operand of a comparison: a lazylist, a plain list, or a value
\* of another type
OtherLl(d) == [t |-> "ll", c |-> d, buf |-> <<>>]

OtherList(buf) == [t |-> "list", c |-> "", buf |-> buf]

OtherValue == [t |-> "other", c |-> "", buf |-> <<>>]

\* a slip: the type of the other operand is not checked, a value of
\* another type compares as an empty list
cmp_unchecked(w, c, other) ==
    IF other.t = "ll" THEN cmp(w, c, other.c) ELSE cmp_list(w, c, other.buf)

\* lazylist.__cmp__ with any operand
cmp_any(w, c, other) ==
    IF other.t \notin {"ll", "list"} THEN R(w, "type", 0)
    ELSE IF other.t = "ll" THEN cmp(w, c, other.c)
    ELSE cmp_list(w, c, other.buf)

\* lazylist.__eq__
eq(w, c, other) ==
    IF other.t \notin {"ll", "list"} THEN R(w, "ok", FALSE)
    ELSE With(cmp_any(w, c, other), LAMBDA r :
             IF r.st # "ok" THEN r ELSE R(r.w, "ok", r.val = 0))

\* lazylist.__ne__
ne(w, c, other) ==
    With(eq(w, c, other), LAMBDA r :
        IF r.st # "ok" THEN r ELSE R(r.w, "ok", ~r.val))

\* lazylist.__ge__
ge(w, c, other) ==
    With(cmp_any(w, c, other), LAMBDA r :
        IF r.st # "ok" THEN r ELSE R(r.w, "ok", r.val >= 0))

\* lazylist.__gt__
gt(w, c, other) ==
    With(cmp_any(w, c, other), LAMBDA r :
        IF r.st # "ok" THEN r ELSE R(r.w, "ok", r.val > 0))

\* lazylist.__le__
le(w, c, other) ==
    With(cmp_any(w, c, other), LAMBDA r :
        IF r.st # "ok" THEN r ELSE R(r.w, "ok", r.val <= 0))

\* lazylist.__lt__
lt(w, c, other) ==
    With(ge(w, c, other), LAMBDA r :
        IF r.st # "ok" THEN r ELSE R(r.w, "ok", ~r.val))

\* a slip: the hash of the materialized elements
hash_strict(w, c) ==
    With(make_strict(w, c, NoIdx), LAMBDA m :
        IF m.st # "ok" THEN m ELSE R(m.w, "ok", Len(StrictOf(m.w, c))))

\* lazylist.__hash__
hash(w, c) == R(w, "type", 0)

\* iter(c)
iter(w, c) == Alloc(w, NewLlit(c))

(******************** structural operations: copy, repeat, reverse *********)
\* itertools.tee(it, n): a tee object is copied (it is itself the first of
\* the results); any other iterator gets a fresh shared buffer
tee(w, id, n) ==
    LET base == Len(w.heap)
    IN  IF n = 0 THEN [w |-> w, ids |-> <<>>]
        ELSE IF w.heap[id].kind = "tee"
        THEN LET cp == Obj("tee", <<>>, w.heap[id].pos, w.heap[id].inner)
             IN  [w |-> [w EXCEPT !.heap = @ \o [k \in 1..(n - 1) |-> cp]],
                  ids |-> <<id>> \o [k \in 1..(n - 1) |-> base + k]]
        ELSE LET b == Obj("teebuf", <<>>, 0, id)
                 t == Obj("tee", <<>>, 0, base + 1)
             IN  [w |-> [w EXCEPT !.heap = Append(@, b) \o [k \in 1..n |-> t]],
                  ids |-> [k \in 1..n |-> base + 1 + k]]

\* the loop of copy over old_tails
RECURSIVE CopyLoop(_, _, _, _)
CopyLoop(w, c, d, old) ==
    IF old = <<>> THEN w
    ELSE LET item == Head(old)
         IN  IF IsList(w, item)
             THEN LET w1 == Alloc(w, NewList(w.heap[item].buf))
                  IN  CopyLoop([w1 EXCEPT !.ll[c].tails = Append(@, item),
                                          !.ll[d].tails = Append(@, Len(w1.heap))],
                               c, d, Tl(old))
             ELSE LET t == tee(w, item, 2)
                  IN  CopyLoop([t.w EXCEPT !.ll[c].tails = Append(@, t.ids[1]),
                                           !.ll[d].tails = Append(@, t.ids[2])],
                               c, d, Tl(old))

\* a slip: the copy takes the original's iterators and lists as they are
copy_shared(w, c, d) ==
    LET l == w.ll[c]
        w1 == Alloc(w, NewList(w.heap[l.strict].buf))
    IN  [w1 EXCEPT !.ll[d] = [live |-> TRUE, strict |-> Len(w1.heap),
                              tail |-> l.tail, tails |-> l.tails]]

\* d = c.copy(); the new object's first, empty _strict is dropped at once
\* and is not given a heap cell
copy(w, c, d) ==
    LET l == w.ll[c]
        w1 == Alloc(w, NewList(w.heap[l.strict].buf))
        w2 == [w1 EXCEPT !.ll[d] = [live |-> TRUE, strict |-> Len(w1.heap),
                                    tail |-> None, tails |-> <<>>]]
        w3 == IF l.tail # None
              THEN LET t == tee(w2, l.tail, 2)
                   IN  [t.w EXCEPT !.ll[c].tail = t.ids[1], !.ll[d].tail = t.ids[2]]
              ELSE w2
    IN  CopyLoop([w3 EXCEPT !.ll[c].tails = <<>>], c, d, l.tails)

\* _add_repetition over the items; reps[r] is repetition r
RECURSIVE RepLoop(_, _, _, _)
RepLoop(w, items, count, reps) ==
    IF items = <<>> THEN [w |-> w, reps |-> reps]
    ELSE LET item == Head(items)
         IN  IF IsList(w, item)
             THEN RepLoop(w, Tl(items), count,
                          [r \in 1..count |-> Append(reps[r], item)])
             ELSE LET t == tee(w, item, count)
                  IN  RepLoop(t.w, Tl(items), count,
                              [r \in 1..count |-> Append(reps[r], t.ids[r])])

RECURSIVE Concat(_)
Concat(ss) == IF ss = <<>> THEN <<>> ELSE Head(ss) \o Concat(Tl(ss))

\* a slip: every repetition gets the original's iterators themselves
imul_shared(w, c, count) ==
    LET l == w.ll[c]
        items == <<l.strict>> \o (IF l.tail # None THEN <<l.tail>> ELSE <<>>) \o l.tails
        w1 == Alloc(w, NewList(<<>>))
    IN  advance_tail([w1 EXCEPT !.ll[c].strict = Len(w1.heap),
                                !.ll[c].tail = None,
                                !.ll[c].tails = Concat([r \in 1..count |-> items])], c)

imul(w, c, count) ==
    LET l == w.ll[c]
        items == <<l.strict>> \o (IF l.tail # None THEN <<l.tail>> ELSE <<>>) \o l.tails
        rp == RepLoop(w, items, count, [r \in 1..count |-> <<>>])
        w1 == Alloc(rp.w, NewList(<<>>))
    IN  advance_tail([w1 EXCEPT !.ll[c].strict = Len(w1.heap),
                                !.ll[c].tail = None,
                                !.ll[c].tails = Concat(rp.reps)], c)

\* d = c * count
mul(w, c, d, count) == imul(copy(w, c, d), d, count)

\* a slip: the left operand is not copied, the result is the operand itself
add_ll_shared(w, a, d, z, t) ==
    LET w2 == copy(w, d, t)
        w3 == iter(w2, t)
        w4 == add_tail(w3, a, Len(w3.heap))
    IN  [w4 EXCEPT !.ll[z] = w4.ll[a]]

\* z = a + d for a lazylist d; t is the object that d.copy() makes
add_ll(w, a, d, z, t) ==
    LET w1 == copy(w, a, z)
        w2 == copy(w1, d, t)
        w3 == iter(w2, t)
    IN  add_tail(w3, z, Len(w3.heap))

\* z = a + other for a plain list other, the heap cell id
add_list(w, a, id, z) ==
    LET w1 == copy(w, a, z)
        w2 == Alloc(w1, NewList(w1.heap[id].buf))
    IN  add_tail(w2, z, Len(w2.heap))

\* the generators _lazy_reversed(tail) for the ids of ts, in the order of ts
RECURSIVE RevAll(_, _, _)
RevAll(w, ts, acc) ==
    IF ts = <<>> THEN [w |-> w, ids |-> acc]
    ELSE LET w1 == Alloc(w, Obj("rev", <<>>, 0, Head(ts)))
         IN  RevAll(w1, Tl(ts), Append(acc, Len(w1.heap)))

\* a slip: the pending entries are re-queued in their old order
reverse_in_order(w, c) ==
    LET l == w.ll[c]
        old_strict == l.strict
        old_tail == l.tail
        w1 == Alloc(w, NewList(<<>>))
        w2 == [w1 EXCEPT !.ll[c].strict = Len(w1.heap), !.ll[c].tail = None]
        rv == RevAll(w2, l.tails \o
                         (IF old_tail # None THEN <<old_tail>> ELSE <<>>), <<>>)
        w3 == [rv.w EXCEPT !.ll[c].tails = rv.ids]
        w4 == IF w.heap[old_strict].buf # <<>>
              THEN [w3 EXCEPT !.heap[old_strict].buf = Rev(@),
                              !.ll[c].tails = Append(@, old_strict)]
              ELSE w3
    IN  advance_tail(w4, c)

reverse(w, c) ==
    LET l == w.ll[c]
        old_strict == l.strict
        old_tail == l.tail
        w1 == Alloc(w, NewList(<<>>))
        w2 == [w1 EXCEPT !.ll[c].strict = Len(w1.heap), !.ll[c].tail = None]
        rv == RevAll(w2, Rev(l.tails) \o
                         (IF old_tail # None THEN <<old_tail>> ELSE <<>>), <<>>)
        w3 == [rv.w EXCEPT !.ll[c].tails = rv.ids]
        w4 == IF w.heap[old_strict].buf # <<>>
              THEN [w3 EXCEPT !.heap[old_strict].buf = Rev(@),
                              !.ll[c].tails = Append(@, old_strict)]
              ELSE w3
    IN  advance_tail(w4, c)

(***************** the logical sequence of a container *********************)
\* Each element of the logical sequence with where it comes from: o is the
\* upstream element <<source id, k>> (the k-th element of that source) it
\* is when it has not been pulled yet, <<0, 0>> when it is already held in
\* a list or buffer; need is the set of upstream elements that producing
\* it pulls.
Held(buf) == [k \in 1..Len(buf) |-> [v |-> buf[k], o |-> <<0, 0>>, need |-> {}]]

RECURSIVE RemO(_, _), FlatO(_, _)
RemO(w, id) ==
    LET o == w.heap[id]
    IN  CASE o.kind = "list" -> Held(o.buf)
          [] o.kind = "src" ->
                [k \in 1..(Len(o.buf) - o.pos) |->
                    [v |-> o.buf[o.pos + k], o |-> <<id, o.pos + k>>,
                     need |-> {<<id, o.pos + k>>}]]
          [] o.kind = "tee" ->
                Held(From(w.heap[o.inner].buf, o.pos)) \o RemO(w, w.heap[o.inner].inner)
          [] o.kind = "rev" ->
                IF o.st = "new"
                THEN IF IsList(w, o.inner) THEN Held(Rev(w.heap[o.inner].buf))
                     ELSE LET in == RemO(w, o.inner)
                              all == UNION {in[k].need : k \in DOMAIN in}
                          IN  Rev([k \in DOMAIN in |-> [in[k] EXCEPT !.need = all]])
                ELSE IF o.st = "run" THEN Held(From(o.buf, o.pos))
                ELSE <<>>
          [] OTHER ->
                LET f == FlatO(w, o.name)
                IN  IF o.pos >= Len(f) THEN <<>> ELSE From(f, o.pos)

RECURSIVE RemAll(_, _)
RemAll(w, ids) == IF ids = <<>> THEN <<>> ELSE RemO(w, Head(ids)) \o RemAll(w, Tl(ids))

FlatO(w, c) ==
    LET l == w.ll[c]
    IN  Held(w.heap[l.strict].buf)
        \o (IF l.tail # None THEN RemO(w, l.tail) ELSE <<>>)
        \o RemAll(w, l.tails)

Flat(w, c) == LET f == FlatO(w, c) IN [k \in DOMAIN f |-> f[k].v]

\* the upstream sources and how far each has been pulled
Srcs(w) == {id \in 1..Len(w.heap) : w.heap[id].kind = "src"}

Pulled(w, id) == IF id \in Srcs(w) THEN w.heap[id].pos ELSE 0

(****************************** the actions ********************************)
W == [heap |-> heap, ll |-> ll]

Empty == [heap |-> <<>>, ll |-> [c \in Objs |-> Absent]]

Live(c) == ll[c].live

Other(c) == IF c = "x" THEN "y" ELSE "x"

\* the n values a new source holds: values never used before, so that every
\* element of every source can be told from the others
Data(base, n) == [k \in 1..n |-> base + k]

\* the caller's arguments: a list, an iterator over data (possibly over
\* nothing), an iterator that never ends; an iterator may fail once, before
\* its element fail + 1
Finite == {<<"list", MaxLen>>, <<"iter", 0>>, <<"iter", MaxLen>>}

Shapes == Finite \cup {<<"inf", 0>>}

Arg(w, shape, base, n, fail) ==
    IF shape = "list" THEN Alloc(w, [NewList(Data(base, n)) EXCEPT !.st = "caller"])
    ELSE IF shape = "iter" THEN Alloc(w, NewSrc(Data(base, n), fail, FALSE))
    ELSE Alloc(w, NewSrc(Data(base, InfWindow), fail, TRUE))

ArgLen(shape, n) == IF shape = "inf" THEN InfWindow ELSE n

\* what each action records of the call it made: the operation, the
\* container, its argument, how it ended, and the number of writing calls
\* made so far
Call(op, c, src, arg, st, n) ==
    [op |-> op, c |-> c, src |-> src, arg |-> arg, st |-> st, n |-> n]

\* the calls that at most materialize, and the calls that change contents
Reads == {"Get", "Bool", "Length", "Contains", "IndexOf", "Eq", "Lt", "IterNext",
          "GetSlice"}

Writes == {"Extend", "IAdd", "Append", "Delete", "Set", "IMul", "Reverse",
           "DelSlice", "SetSlice", "Insert", "Add", "Pop", "Clear"}

NoFork == [on |-> FALSE, snap |-> <<>>, dirty |-> {}]

\* fork remembers the logical contents at the time of the latest copy()
\* and which of the two containers was written to since
ForkAfter(op, c) ==
    IF op = "Copy" THEN [on |-> TRUE, snap |-> Flat(W, "x"), dirty |-> {}]
    ELSE IF op = "Mul" THEN [on |-> TRUE, snap |-> Flat(W, "x"), dirty |-> {"y"}]
    ELSE IF op \in Writes /\ fork.on THEN [fork EXCEPT !.dirty = @ \cup {c}]
    ELSE fork

\* A call that leaves the whole world as it was is a stuttering step; any
\* other call is recorded in last.  The calls that are not reads are bounded
\* by MaxOps.
Step(w, op, c, src, arg, st, used) ==
    /\ st # "over"
    /\ Len(w.heap) <= MaxHeap
    /\ op \notin Reads => last.n < MaxOps
    /\ heap' = w.heap
    /\ ll' = w.ll
    /\ its' = IF op = "IterNew" THEN Append(its, Len(w.heap)) ELSE its
    /\ dct' = dct
    /\ IF w = W
       THEN UNCHANGED <<last, fresh, fork>>
       ELSE /\ fresh' = fresh + used
            /\ fork' = ForkAfter(op, c)
            /\ last' = Call(op, c, src, arg, st,
                            IF op \in Reads THEN last.n ELSE last.n + 1)

\* a call that is recorded although it left the program's state as it was
Note(op, c, src, arg, st) ==
    /\ UNCHANGED <<heap, ll, its, fresh, fork, dct>>
    /\ last' = Call(op, c, src, arg, st, last.n)

\* c = lazylist(iterable)
construct(w, c, shape, base, n, fail) ==
    LET w1 == Arg(init(w, c), shape, base, n, fail)
    IN  add_tail(w1, c, Len(w1.heap))

\* where an iterator of n elements may fail: never, or, when failures are
\* modelled, once, when asked for its last element
FailAt(failing, n) == IF failing /\ n > 0 THEN {-1, n - 1} ELSE {-1}

\* the container as constructed: lazylist(), lazylist(source), or
\* lazylist(source) extended by a second source
InitWith(failing) ==
    \/ /\ heap = init(Empty, "x").heap
       /\ ll = init(Empty, "x").ll
       /\ fresh = 0
       /\ its = <<>>
       /\ fork = NoFork
       /\ last = Call("Construct", "x", "none", 0, "ok", 0)
    \/ \E a \in Shapes :
         \E f \in (IF a[1] = "list" THEN {-1} ELSE FailAt(failing, ArgLen(a[1], a[2]))) :
           LET w == construct(Empty, "x", a[1], 0, a[2], f)
           IN  /\ heap = w.heap
               /\ ll = w.ll
               /\ fresh = ArgLen(a[1], a[2])
               /\ its = <<>>
               /\ fork = NoFork
               /\ last = Call("Construct", "x", a[1], 0, "ok", 0)
    \/ \E a \in Finite, b \in Shapes :
         \E f1 \in (IF a[1] = "list" THEN {-1} ELSE FailAt(failing, ArgLen(a[1], a[2]))),
            f2 \in (IF b[1] = "list" THEN {-1} ELSE FailAt(failing, ArgLen(b[1], b[2]))) :
           LET w1 == construct(Empty, "x", a[1], 0, a[2], f1)
               w2 == Arg(w1, b[1], ArgLen(a[1], a[2]), b[2], f2)
               w == add_tail(w2, "x", Len(w2.heap))
           IN  /\ heap = w.heap
               /\ ll = w.ll
               /\ fresh = ArgLen(a[1], a[2]) + ArgLen(b[1], b[2])
               /\ its = <<>>
               /\ fork = NoFork
               /\ last = Call("Extend", "x", b[1], 0, "ok", 0)

\* the keys, the deferred values and the empty state of the lazy mapping
\* (modelled further down)
Keys == {"a", "b", "x"}

Thunks == {1, 2, 3}

NoVal == <<0, 0>>

\* lazydict(): no entry, and no deferred value called yet
NoDict ==
    [order |-> <<>>,
     resolved |-> [k \in Keys |-> NoVal],
     unresolved |-> [k \in Keys |-> 0],
     called |-> [t \in Thunks |-> 0]]

Init == InitWith(FALSE) /\ dct = NoDict

\* extend(values)
ExtendWith(c, failing) ==
    \E a \in Finite :
        \E f \in (IF a[1] = "list" THEN {-1} ELSE FailAt(failing, ArgLen(a[1], a[2]))) :
            /\ Live(c)
            /\ LET w1 == Arg(W, a[1], fresh, a[2], f)
               IN  Step(add_tail(w1, c, Len(w1.heap)), "Extend", c, a[1], 0, "ok",
                        ArgLen(a[1], a[2]))

Extend(c) == ExtendWith(c, FALSE)

\* __iadd__(other), the same _add_tail
IAdd(c) ==
    /\ Live(c)
    /\ LET w1 == Arg(W, "iter", fresh, MaxLen, -1)
       IN  Step(add_tail(w1, c, Len(w1.heap)), "IAdd", c, "iter", 0, "ok", MaxLen)

Append_(c) ==
    /\ Live(c)
    /\ Step(append(W, c, fresh + 1), "Append", c, "none", fresh + 1, "ok", 1)

Idxs == -1..MaxIdx

GetIdxs == {-1, 0, MaxLen}

Get(c) ==
    \E i \in GetIdxs :
        /\ Live(c)
        /\ LET r == getitem(W, c, i)
           IN  Step(r.w, "Get", c, "none", 0, r.st, 0)

Bool(c) ==
    /\ Live(c)
    /\ LET r == bool(W, c)
       IN  Step(r.w, "Bool", c, "none", 0, r.st, 0)

Length(c) ==
    /\ Live(c)
    /\ LET r == len(W, c)
       IN  Step(r.w, "Length", c, "none", 0, r.st, 0)

DelIdxs == {-1, 0, MaxLen}

Delete(c) ==
    \E i \in DelIdxs :
        /\ Live(c)
        /\ LET r == delitem(W, c, i)
           IN  Step(r.w, "Delete", c, "none", i, r.st, 0)

SetIdxs == {MaxLen - 1}

Set(c) ==
    \E i \in SetIdxs :
        /\ Live(c)
        /\ LET r == setitem(W, c, i, fresh + 1)
           IN  Step(r.w, "Set", c, "none", i, r.st, 1)

Copy ==
    /\ Live("x")
    /\ ~Live("y")
    /\ Step(copy(W, "x", "y"), "Copy", "x", "none", 0, "ok", 0)

Counts == 0..MaxCount

IMul(c) ==
    \E n \in Counts :
        /\ Live(c)
        /\ Step(imul(W, c, n), "IMul", c, "none", n, "ok", 0)

Mul ==
    \E n \in Counts :
        /\ Live("x")
        /\ ~Live("y")
        /\ Step(mul(W, "x", "y", n), "Mul", "x", "none", n, "ok", 0)

Reverse(c) ==
    /\ Live(c)
    /\ Step(reverse(W, c), "Reverse", c, "none", 0, "ok", 0)

\* the values looked for: the first one made, the latest, one never made
LookVals == {1, fresh, fresh + 1}

Contains(c) ==
    \E v \in LookVals :
        /\ Live(c)
        /\ LET r == contains(W, c, v)
           IN  Step(r.w, "Contains", c, "none", IF r.st = "ok" /\ r.val THEN 1 ELSE 0,
                    r.st, 0)

\* the stop arguments of index: an index inside the first data, the default
StopArgs == {MaxLen - 1, MaxSize}

IndexOf(c) ==
    \E v \in LookVals, stop \in StopArgs :
        /\ Live(c)
        /\ LET r == index(W, c, v, 0, stop)
           IN  Step(r.w, "IndexOf", c, "none", r.val, r.st, 0)

\* the other operand of the comparisons: the other container, a plain list
\* around the first data, a value of another type
CmpArgs(c) ==
    (IF Live(Other(c)) THEN {OtherLl(Other(c))} ELSE {})
    \cup {OtherList(s) : s \in {Data(0, MaxLen), Data(0, MaxLen + 1)}}
    \cup {OtherValue}

\* c == d, c < d, ...: all are __cmp__
Compare(c) ==
    \E other \in CmpArgs(c) :
        /\ Live(c)
        /\ \/ LET r == eq(W, c, other)
              IN  IF other = OtherValue
                  THEN Note("Eq", c, other.t, IF r.val THEN 1 ELSE 0, r.st)
                  ELSE Step(r.w, "Eq", c, other.t, IF r.st = "ok" /\ r.val THEN 1 ELSE 0,
                            r.st, 0)
           \/ LET r == lt(W, c, other)
              IN  IF other = OtherValue
                  THEN Note("Lt", c, other.t, 0, r.st)
                  ELSE Step(r.w, "Lt", c, other.t, IF r.st = "ok" /\ r.val THEN 1 ELSE 0,
                            r.st, 0)

\* it = iter(c), kept by the caller
IterNew(c) ==
    /\ Live(c)
    /\ Len(its) < MaxIters
    /\ Step(iter(W, c), "IterNew", c, "none", 0, "ok", 0)

\* next(it)
IterNext ==
    \E k \in 1..Len(its) :
        LET r == NextIt(W, its[k])
        IN  Step(r.w, "IterNext", heap[its[k]].name, "none", 0, r.st, 0)

Next ==
    \/ \E c \in Names : Extend(c)
    \/ \E c \in Names : IAdd(c)
    \/ \E c \in Names : Append_(c)
    \/ \E c \in Names : Get(c)
    \/ \E c \in Names : Bool(c)
    \/ \E c \in Names : Length(c)
    \/ \E c \in Names : Delete(c)
    \/ \E c \in Names : Set(c)
    \/ Copy
    \/ \E c \in Names : IMul(c)
    \/ Mul
    \/ \E c \in Names : Reverse(c)

Spec == Init /\ [][Next]_vars

\* The further operations of the class, on their own with a few of the
\* operations above that build the containers they are called on.
\* the slices of the calls: [:1], [-2:MaxLen+1], [1::-1]
Slices ==
    {Sl(<<>>, <<1>>, <<>>), Sl(<<-2>>, <<MaxLen + 1>>, <<>>), Sl(<<1>>, <<>>, <<-1>>)}

GetSlice(c) ==
    \E sl \in Slices :
        /\ Live(c)
        /\ LET r == getitem_slice(W, c, sl)
           IN  Step(r.w, "GetSlice", c, "none", 0, r.st, 0)

DelSlice(c) ==
    \E sl \in Slices :
        /\ Live(c)
        /\ LET r == delitem_slice(W, c, sl)
           IN  Step(r.w, "DelSlice", c, "none", 0, r.st, 0)

SetSlice(c) ==
    \E sl \in Slices :
        /\ Live(c)
        /\ LET r == setitem_slice(W, c, sl, <<fresh + 1>>)
           IN  Step(r.w, "SetSlice", c, "none", 0, r.st, 1)

InsIdxs == {0, 1, MaxLen}

Insert(c) ==
    \E i \in InsIdxs :
        /\ Live(c)
        /\ LET r == insert(W, c, i, fresh + 1)
           IN  Step(r.w, "Insert", c, "none", i, r.st, 1)

PopIdxs == {-1, 0, 1}

Pop(c) ==
    \E i \in PopIdxs :
        /\ Live(c)
        /\ LET r == pop(W, c, i)
           IN  Step(r.w, "Pop", c, "none", i, r.st, 0)

Clear(c) ==
    /\ Live(c)
    /\ Step(clear(W, c), "Clear", c, "none", 0, "ok", 0)

NextQ ==
    \/ \E c \in Names : Extend(c)
    \/ \E c \in Names : Append_(c)
    \/ \E c \in Names : Reverse(c)
    \/ \E c \in Names : GetSlice(c)
    \/ \E c \in Names : DelSlice(c)
    \/ \E c \in Names : SetSlice(c)
    \/ \E c \in Names : Insert(c)
    \/ \E c \in Names : Pop(c)
    \/ \E c \in Names : Clear(c)

SpecQ == Init /\ [][NextQ]_vars

\* Comparing, with the operations that build the containers compared.
NextC ==
    \/ \E c \in Names : Extend(c)
    \/ \E c \in Names : Append_(c)
    \/ Copy
    \/ \E c \in Names : Compare(c)

SpecC == Init /\ [][NextC]_vars

\* Comparisons of containers that were reversed or copied.
NextR ==
    \/ \E c \in Names : Extend(c)
    \/ \E c \in Names : Reverse(c)
    \/ Copy
    \/ \E c \in Names : Compare(c)

SpecR == Init /\ [][NextR]_vars

\* Several iterators over one container, stepped in any interleaving.
MaxShared == 2

\* it = iter(c), one of several that the caller keeps
IterShared(c) ==
    /\ Live(c)
    /\ Len(its) < MaxShared
    /\ Step(iter(W, c), "IterNew", c, "none", 0, "ok", 0)

NextM ==
    \/ \E c \in Names : IterShared(c)
    \/ IterNext

SpecM == Init /\ [][NextM]_vars

\* x.extend(x): _add_tail queues iter(x), an iterator over the container
\* itself; arg is the length of the container before the call (-1 when it
\* has none)
LenBefore(c) == With(len(W, c), LAMBDA r : IF r.st = "ok" THEN r.val ELSE -1)

ExtendSelf(c) ==
    /\ Live(c)
    /\ LET w1 == iter(W, c)
       IN  Step(add_tail(w1, c, Len(w1.heap)), "ExtendSelf", c, "self",
                LenBefore(c), "ok", 0)

\* x += x, the same _add_tail
IAddSelf(c) ==
    /\ Live(c)
    /\ LET w1 == iter(W, c)
       IN  Step(add_tail(w1, c, Len(w1.heap)), "IAddSelf", c, "self",
                LenBefore(c), "ok", 0)

\* the run ends with the first RecursionError (a call that fails so has
\* queued the active tail once more, and would again with every retry)
Running == last.st # "recursion"

NextX ==
    \/ \E c \in Names : Running /\ Extend(c)
    \/ \E c \in Names : Running /\ ExtendSelf(c)
    \/ \E c \in Names : Running /\ IAddSelf(c)
    \/ \E c \in Names : Running /\ Get(c)
    \/ \E c \in Names : Running /\ Length(c)

SpecX == Init /\ [][NextX]_vars

\* c.append(None)
AppendNone(c) ==
    /\ Live(c)
    /\ Step(append(W, c, NoOrder), "Append", c, "none", NoOrder, "ok", 0)

\* the caller's lists that hold a None after some of the first data
MixedArgs == {OtherList(Append(Data(0, k), NoOrder)) : k \in 0..MaxLen}

\* c == other for a list that holds a None
CompareMixed(c) ==
    \E other \in MixedArgs :
        /\ Live(c)
        /\ LET r == eq(W, c, other)
               v == IF r.st = "ok" /\ r.val THEN 1 ELSE 0
           IN  IF r.w = W THEN Note("EqMixed", c, other.t, v, r.st)
               ELSE Step(r.w, "EqMixed", c, other.t, v, r.st, 0)

NextE ==
    \/ \E c \in Names : Extend(c)
    \/ \E c \in Names : AppendNone(c)
    \/ \E c \in Names : CompareMixed(c)

SpecE == Init /\ [][NextE]_vars

\* z = x + other, other a lazylist or the caller's list
Add ==
    /\ Live("x")
    /\ ~Live("z")
    /\ \/ \E d \in Names :
             /\ Live(d)
             /\ Step(add_ll(W, "x", d, "z", "t"), "Add", "x", "ll", 0, "ok", 0)
       \/ LET w1 == Arg(W, "list", fresh, MaxLen, -1)
          IN  Step(add_list(w1, "x", Len(w1.heap), "z"), "Add", "x", "list", 0, "ok",
                   MaxLen)

\* Concatenating, with the operations that build the operands and calls
\* on the operands and on the result.
NextA ==
    \/ \E c \in Names : Extend(c)
    \/ Copy
    \/ Add
    \/ \E c \in Names \cup {"z"} : Get(c)
    \/ \E c \in Names \cup {"z"} : Length(c)
    \/ \E c \in Names \cup {"z"} : Append_(c)

SpecA == Init /\ [][NextA]_vars

\* Iterating, with the operations that change the container under the
\* iterator; the caller keeps calling next() on the iterator it holds.
NextI ==
    \/ \E c \in Names : Extend(c)
    \/ \E c \in Names : Append_(c)
    \/ \E c \in Names : Reverse(c)
    \/ \E c \in Names : IterNew(c)
    \/ IterNext

\* the caller's iterator has an element to yield
CanYield == its # <<>> /\ NextIt(W, its[1]).st = "ok"

\* a step in which the caller's iterator yielded an element
Yielded == its # <<>> /\ its' = its /\ heap'[its[1]].pos > heap[its[1]].pos

\* Weak fairness of the yielding steps of IterNext, written out: an iterator
\* that has an element to yield from some point on does yield.
SpecI == Init /\ [][NextI]_vars /\ (<>[]CanYield => []<><<Yielded>>_vars)

Hash(c) ==
    /\ Live(c)
    /\ LET r == hash(W, c)
       IN  Note("Hash", c, "none", 0, r.st)

\* Searching, with the operations that build the containers searched.
NextS ==
    \/ \E c \in Names : Extend(c)
    \/ \E c \in Names : Append_(c)
    \/ \E c \in Names : Reverse(c)
    \/ \E c \in Names : Contains(c)
    \/ \E c \in Names : IndexOf(c)
    \/ \E c \in Names : Hash(c)

SpecS == Init /\ [][NextS]_vars

(***************************************************************************)
(* The lazy mapping, lazydict.  Its code is not part of the sources; it is *)
(* modelled from its interface contract and from its tests.  _resolved     *)
(* holds every key in insertion order (None stands in for a value not yet  *)
(* resolved), _unresolved the deferred values of the keys not yet read.    *)
(* A value is a pair: <<0, v>> a plain value v, <<n, t>> with n > 0 what   *)
(* the deferred value t returned at its n-th call (the tests' defer), and  *)
(* <<-1, t>> the callable t itself, stored as a value.                     *)
(***************************************************************************)

MaxDictOps == 4

Plain(v) == <<0, v>>

Callable(t) == <<-1, t>>

DictHas(d, k) == \E i \in 1..Len(d.order) : d.order[i] = k

\* a Get, a Set, a Delete or a Values() of the mapping ends with a status and,
\* for a Get, a value
DR(d, st, val) == [d |-> d, st |-> st, val |-> val]

\* the entry k: v of the initializer: a callable is deferred
dict_entry(d, k, kind, v) ==
    LET o == IF DictHas(d, k) THEN d.order ELSE Append(d.order, k)
    IN  IF kind = "defer"
        THEN [d EXCEPT !.order = o, !.resolved[k] = NoVal, !.unresolved[k] = v]
        ELSE [d EXCEPT !.order = o, !.resolved[k] = Plain(v), !.unresolved[k] = 0]

\* lazydict(pairs, **named)
RECURSIVE lazydict(_, _)
lazydict(d, items) ==
    IF items = <<>> THEN d
    ELSE lazydict(dict_entry(d, items[1][1], items[1][2], items[1][3]), Tl(items))

\* a slip: the deferred value is called, and stays deferred
dict_getitem_uncached(d, k) ==
    IF ~DictHas(d, k) THEN DR(d, "key", NoVal)
    ELSE IF d.unresolved[k] # 0
    THEN LET t == d.unresolved[k]
             n == d.called[t] + 1
         IN  DR([d EXCEPT !.called[t] = n], "ok", <<n, t>>)
    ELSE DR(d, "ok", d.resolved[k])

\* lazydict.__getitem__
dict_getitem(d, k) ==
    IF ~DictHas(d, k) THEN DR(d, "key", NoVal)
    ELSE IF d.unresolved[k] # 0
    THEN LET t == d.unresolved[k]
             n == d.called[t] + 1
         IN  DR([d EXCEPT !.called[t] = n, !.resolved[k] = <<n, t>>,
                          !.unresolved[k] = 0],
                "ok", <<n, t>>)
    ELSE DR(d, "ok", d.resolved[k])

\* lazydict.__setitem__: the value is stored as it is, a callable too
dict_setitem(d, k, v) ==
    DR([d EXCEPT !.order = IF DictHas(d, k) THEN @ ELSE Append(@, k),
                 !.resolved[k] = v,
                 !.unresolved[k] = 0],
       "ok", NoVal)

\* the keys other than k, in order
RECURSIVE KeysBut(_, _)
KeysBut(order, k) ==
    IF order = <<>> THEN <<>>
    ELSE IF order[1] = k THEN KeysBut(Tl(order), k)
    ELSE <<order[1]>> \o KeysBut(Tl(order), k)

\* lazydict.__delitem__: a missing key is no error
dict_delitem(d, k) ==
    DR([d EXCEPT !.order = KeysBut(@, k),
                 !.resolved[k] = NoVal,
                 !.unresolved[k] = 0],
       "ok", NoVal)

\* lazydict.keys, lazydict.__iter__
dict_keys(d) == DR(d, "ok", d.order)

\* lazydict.values: every value, in order, resolved on the way
RECURSIVE ValuesLoop(_, _, _)
ValuesLoop(d, order, acc) ==
    IF order = <<>> THEN DR(d, "ok", acc)
    ELSE LET r == dict_getitem(d, order[1])
         IN  ValuesLoop(r.d, Tl(order), Append(acc, r.val))

dict_values(d) == ValuesLoop(d, d.order, <<>>)

\* what the key k is in the mapping before a call
EntryKind(d, k) ==
    IF ~DictHas(d, k) THEN "none"
    ELSE IF d.unresolved[k] # 0 THEN "deferred" ELSE "resolved"

\* the initializers: a and b are each left out, given a plain value, or
\* given a deferred value of their own
Entries(k, t) == {<<>>, <<<<k, "plain", t>>>>, <<<<k, "defer", t>>>>}

InitD ==
    /\ heap = init(Empty, "x").heap
    /\ ll = init(Empty, "x").ll
    /\ fresh = 0
    /\ its = <<>>
    /\ fork = NoFork
    /\ \E ea \in Entries("a", 1), eb \in Entries("b", 2) :
         /\ dct = lazydict(NoDict, ea \o eb)
         /\ last = Call("DictConstruct", "x", "none", Len(ea \o eb), "ok", 0)

DictStep(r, op, k, arg) ==
    /\ last.n < MaxDictOps
    /\ dct' = r.d
    /\ last' = Call(op, k, EntryKind(dct, k), arg, r.st, last.n + 1)
    /\ UNCHANGED <<heap, ll, its, fresh, fork>>

\* dct[k]
DictGet(k) ==
    LET r == dict_getitem(dct, k)
    IN  DictStep(r, "DictGet", k, r.val[1])

\* dct[k] = v, v a plain value or a callable
DictSet(k) ==
    \E v \in {Plain(3), Callable(3)} :
        DictStep(dict_setitem(dct, k, v), "DictSet", k, v[1])

\* del dct[k]
DictDelete(k) == DictStep(dict_delitem(dct, k), "DictDelete", k, 0)

\* list(dct.values())
DictValues ==
    LET r == dict_values(dct)
    IN  DictStep(r, "DictValues", "x", Len(r.val))

\* list(dct.keys())
DictKeys ==
    LET r == dict_keys(dct)
    IN  DictStep(r, "DictKeys", "x", Len(r.val))

NextD ==
    \/ \E k \in Keys : DictGet(k)
    \/ \E k \in Keys : DictSet(k)
    \/ \E k \in Keys : DictDelete(k)
    \/ DictValues
    \/ DictKeys

SpecD == InitD /\ [][NextD]_vars

\* The same program with upstream iterators that may fail once.

InitFail == InitWith(TRUE) /\ dct = NoDict

ExtendFail(c) == ExtendWith(c, TRUE)

NextFail ==
    \/ \E c \in Names : ExtendFail(c)
    \/ \E c \in Names : Append_(c)
    \/ \E c \in Names : Get(c)
    \/ \E c \in Names : Bool(c)
    \/ \E c \in Names : Length(c)
    \/ \E c \in Names : Delete(c)
    \/ \E c \in Names : Reverse(c)

SpecFail == InitFail /\ [][NextFail]_vars

(***************************************************************************)
(* The claims.  A claim about what a call does "in any reachable state" is *)
(* stated as an invariant: in every reachable world, the call applied to   *)
(* that world gives a result with the stated relation to the world.        *)
(***************************************************************************)
LiveNames == {c \in Names : Live(c)}

\* the upstream elements <<source, k>> pulled between two worlds
PulledBetween(pre, post) ==
    UNION {{<<s, k>> : k \in (Pulled(pre, s) + 1)..Pulled(post, s)} : s \in Srcs(post)}

SamePulled(pre, post) == \A s \in Srcs(post) : Pulled(post, s) = Pulled(pre, s)

\* C1: Construct, Extend and InPlaceConcat with an iterator source pull no
\* element from any source and leave the strict store as it was.
C1_AddIteratorPullsNothing ==
    \A c \in LiveNames, a \in {<<"iter", 0>>, <<"iter", MaxLen>>, <<"inf", 0>>} :
        LET w1 == Arg(W, a[1], fresh, a[2], -1)
            new == Len(w1.heap)
            ext == add_tail(w1, c, new)
            con == construct(W, Other(c), a[1], fresh, a[2], -1)
        IN  /\ StrictOf(ext, c) = StrictOf(W, c)
            /\ SamePulled(W, ext)
            /\ Pulled(ext, new) = 0
            /\ StrictOf(con, Other(c)) = <<>>
            /\ StrictOf(con, c) = StrictOf(W, c)
            /\ SamePulled(W, con)
            /\ Pulled(con, Len(con.heap)) = 0

\* C1 witness: an iterator was added to a container that holds a strict
\* prefix and a partly pulled source, and nothing of it has been pulled.
C1_Witness ==
    /\ last.op \in {"Extend", "IAdd"}
    /\ last.src = "iter"
    /\ StrictOf(W, last.c) # <<>>
    /\ ll[last.c].tails # <<>>
    /\ \E s \in Srcs(W) : Pulled(W, s) > 0
    /\ Pulled(W, Len(heap)) = 0
    /\ heap[Len(heap)].buf # <<>>

\* the upstream elements that are the not yet pulled elements of the logical
\* positions 0..i of container c
OrigUpTo(w, c, i) ==
    LET f == FlatO(w, c)
    IN  {f[j].o : j \in 1..(i + 1)} \ {<<0, 0>>}

\* the upstream elements that producing the logical positions 0..i pulls
NeedUpTo(w, c, i) ==
    LET f == FlatO(w, c)
    IN  UNION {f[j].need : j \in 1..(i + 1)}

\* Get(i) is in the claims' scope: i is below the final length and the
\* modelled window of a never-ending source is not left
InScope(w, c, i, r) == i < Len(FlatO(w, c)) /\ r.st # "over"

IsPrefix(s, t) == Len(s) <= Len(t) /\ s = SubSeq(t, 1, Len(s))

\* C2 as stated: Get(i), 0 <= i < final length, returns the element at
\* logical position i and pulls exactly the not yet pulled upstream elements
\* of the logical positions <= i.
C2_GetPullsOnlyUpToIndex ==
    \A c \in LiveNames, i \in 0..MaxIdx :
        LET r == getitem(W, c, i)
        IN  InScope(W, c, i, r) =>
                /\ r.st = "ok"
                /\ r.val = Flat(W, c)[i + 1]
                /\ PulledBetween(W, r.w) = OrigUpTo(W, c, i)

\* C2 amended: Get(i), 0 <= i < final length, returns the element at logical
\* position i and pulls exactly the upstream elements that the positions
\* <= i need: their own not yet pulled elements and, for a position that
\* lies in a source re-queued by reverse(), the whole rest of that source.
\* A source none of whose elements lies at a position <= i is untouched.
C2_GetPullsWhatIndexNeeds ==
    \A c \in LiveNames, i \in 0..MaxIdx :
        LET r == getitem(W, c, i)
        IN  InScope(W, c, i, r) =>
                /\ r.st = "ok"
                /\ r.val = Flat(W, c)[i + 1]
                /\ PulledBetween(W, r.w) = NeedUpTo(W, c, i)
                /\ OrigUpTo(W, c, i) \subseteq NeedUpTo(W, c, i)

\* C2 witness: a Get pulled one element of a two-element source and left a
\* later source untouched.
C2_Witness ==
    /\ last.op = "Get"
    /\ last.st = "ok"
    /\ \E s, t \in Srcs(W) :
          /\ s < t
          /\ Pulled(W, s) = 1
          /\ Len(heap[s].buf) = MaxLen
          /\ Pulled(W, t) = 0
          /\ heap[t].buf # <<>>
          /\ ll[last.c].tail = s
          /\ t \in {ll[last.c].tails[k] : k \in DOMAIN ll[last.c].tails}

\* C3 as stated: after Get(i) with i below the final length the strict
\* store equals the first i+1 elements of the logical sequence.
C3_StrictIsFirstIPlus1 ==
    \A c \in LiveNames, i \in 0..MaxIdx :
        LET r == getitem(W, c, i)
        IN  InScope(W, c, i, r) =>
                StrictOf(r.w, c) = SubSeq(Flat(W, c), 1, i + 1)

\* C3 amended: after Get(i) with i below the final length the strict store
\* is a prefix of the logical sequence that holds at least its first i+1
\* elements; it holds more only when it already did before the call or when
\* a pending plain sequence, spliced in whole, reaches over position i.
C3_StrictIsPrefixCoveringI ==
    \A c \in LiveNames, i \in 0..MaxIdx :
        LET r == getitem(W, c, i)
            f == FlatO(W, c)
            n == Len(StrictOf(r.w, c))
        IN  InScope(W, c, i, r) =>
                /\ IsPrefix(StrictOf(r.w, c), Flat(W, c))
                /\ n >= i + 1
                /\ n > i + 1 =>
                      \/ n = Len(StrictOf(W, c))
                      \/ \A j \in (i + 1)..n : f[j].need = {}

\* C3 witness: a Get left a strict store that is longer than one element
\* in front of a source with unpulled elements.
C3_Witness ==
    /\ last.op = "Get"
    /\ last.st = "ok"
    /\ Len(StrictOf(W, last.c)) > MaxLen
    /\ ll[last.c].tail \in Srcs(W)
    /\ Pulled(W, ll[last.c].tail) \in 1..(MaxLen - 1)

\* the logical sequence of every container
Seqs(w) == [d \in Names |-> IF w.ll[d].live THEN Flat(w, d) ELSE <<>>]

\* the call that gave r left every logical sequence of pre as it was, and
\* what is strict after it is a prefix of that sequence
Kept(pre, r) ==
    r.st # "over" =>
        /\ Seqs(r.w) = pre
        /\ \A d \in LiveNames : IsPrefix(StrictOf(r.w, d), pre[d])

\* C4: the logical sequence is strict, then the rest of the active source,
\* then the pending entries in queue order, and the calls that only
\* materialize (Get, boolean test, Length, Contains, IndexOf, a step of an
\* iterator at any position, Compare) leave it as it was for every
\* container, with the grown strict store a prefix of it.
C4_ReadsKeepSequence ==
    LET pre == Seqs(W)
    IN  \A c \in LiveNames :
            /\ \A i \in Idxs : Kept(pre, getitem(W, c, i))
            /\ Kept(pre, bool(W, c))
            /\ Kept(pre, len(W, c))
            /\ \A v \in LookVals :
                  /\ Kept(pre, contains(W, c, v))
                  /\ Kept(pre, index(W, c, v, 0, MaxSize))
            /\ \A pos \in 0..MaxIdx : Kept(pre, LlitStep(W, c, pos))
            /\ Live(Other(c)) => Kept(pre, cmp(W, c, Other(c)))

\* C4 witness: a Length call drained an active iterator and spliced the
\* pending entries behind it, an iterator among them.
C4_Witness ==
    /\ last.op = "Length"
    /\ last.st = "ok"
    /\ is_strict(W, last.c)
    /\ Cardinality({s \in Srcs(W) : Pulled(W, s) = MaxLen}) >= 2
    /\ Len(StrictOf(W, last.c)) > 2 * MaxLen

\* what a call leaves: the world and how the call ended
Out(r) == [w |-> r.w, st |-> r.st]

Done(w) == [w |-> w, st |-> "ok"]

\* the worlds that one call on container c can give: a consuming read, or
\* Append, Extend, Set or Delete
CallsOn(c) ==
    {Out(getitem(W, c, i)) : i \in GetIdxs}
    \cup {Out(len(W, c)), Out(bool(W, c)), Done(append(W, c, fresh + 1))}
    \cup {LET w1 == Arg(W, a[1], fresh, a[2], -1)
          IN  Done(add_tail(w1, c, Len(w1.heap))) : a \in Finite}
    \cup {Out(setitem(W, c, i, fresh + 1)) : i \in SetIdxs \cup {0}}
    \cup {Out(delitem(W, c, i)) : i \in DelIdxs}

AfterCall(c) == {r.w : r \in {q \in CallsOn(c) : q.st # "over"}}

\* C5: after Copy() the container that is not written to keeps reporting
\* the logical contents of the time of the copy, whatever reads and writes
\* the other one gets; no single call on one of the two changes the
\* contents of the other; Copy() pulls no element and both containers
\* hold the original's contents after it.
C5_ForkIndependence ==
    /\ fork.on =>
          \A c \in LiveNames \ fork.dirty : Flat(W, c) = fork.snap
    /\ (Live("x") /\ Live("y")) =>
          \A c \in Names :
              LET pre == Flat(W, Other(c))
              IN  \A w \in AfterCall(c) : Flat(w, Other(c)) = pre
    /\ (Live("x") /\ ~Live("y")) =>
          LET w == copy(W, "x", "y")
          IN  /\ SamePulled(W, w)
              /\ Flat(w, "x") = Flat(W, "x")
              /\ Flat(w, "y") = Flat(W, "x")

\* C5 witness: after a copy that split an iterator, the original was
\* written to and the copy then pulled through the shared buffer; the two
\* contents differ.
C5_Witness ==
    /\ fork.on
    /\ fork.dirty = {"x"}
    /\ last.op = "Get"
    /\ last.c = "y"
    /\ \E id \in 1..Len(heap) : heap[id].kind = "teebuf" /\ heap[id].buf # <<>>
    /\ Flat(W, "x") # Flat(W, "y")
    /\ Flat(W, "y") = fork.snap

\* the call on c that gave r failed and left a valid state: every logical
\* sequence is as before, strict is a prefix of it, and a later Length
\* that succeeds gives exactly the sequence
FailSafe(pre, c, r) ==
    r.st = "raise" =>
        /\ Seqs(r.w) = pre
        /\ IsPrefix(StrictOf(r.w, c), pre[c])
        /\ LET again == len(r.w, c)
           IN  again.st = "ok" => StrictOf(again.w, c) = pre[c]

\* C6 as stated: when a source fails while a call materializes, up to an
\* index or everything, the container is left in a valid partially
\* materialized state: no element lost or duplicated, the sources in their
\* order, and a later materialization continues without repeating or
\* skipping elements.
C6_FailureLeavesValidState ==
    LET pre == Seqs(W)
    IN  \A c \in LiveNames :
            /\ \A i \in Idxs : FailSafe(pre, c, getitem(W, c, i))
            /\ FailSafe(pre, c, bool(W, c))
            /\ FailSafe(pre, c, len(W, c))

\* C7: full materialization, as forced by Length (and Count, Sort, Remove,
\* string conversion: all are _make_strict() first) and by a negative
\* index, leaves no active and no pending source and strict equal to the
\* whole logical sequence; a second full materialization changes nothing.
C7_FullMaterialization ==
    \A c \in LiveNames :
        \A r \in {Out(make_strict(W, c, NoIdx)), Out(make_strict(W, c, Idx(-1))),
                  Out(len(W, c)), Out(getitem(W, c, -1))} :
            r.st # "over" =>
                /\ r.st \in {"ok", "index"}
                /\ is_strict(r.w, c)
                /\ StrictOf(r.w, c) = Flat(W, c)
                /\ make_strict(r.w, c, NoIdx) = R(r.w, "ok", 0)
                /\ len(r.w, c) = R(r.w, "ok", Len(Flat(W, c)))

\* C7 witness: a Length call drained the one iterator the container was
\* built from.
C7_Witness ==
    /\ last.op = "Length"
    /\ last.st = "ok"
    /\ is_strict(W, last.c)
    /\ Len(StrictOf(W, last.c)) = MaxLen
    /\ \E s \in Srcs(W) : Pulled(W, s) = MaxLen /\ StrictOf(W, last.c) = heap[s].buf

Repeat(s, n) == Concat([k \in 1..n |-> s])

\* C8: for every n >= 0 and every materialization state, multiplying by n,
\* in place or as a new container, and then materializing fully gives the
\* original's full materialization n times over; n = 0 gives the empty
\* container.
C8_RepetitionLaw ==
    \A c \in LiveNames, n \in Counts :
        LET full == len(W, c)
            inplace == len(imul(W, c, n), c)
        IN  full.st = "ok" =>
                /\ inplace.st = "ok"
                /\ StrictOf(inplace.w, c) = Repeat(StrictOf(full.w, c), n)
                /\ n = 0 => Flat(imul(W, c, n), c) = <<>>
                /\ ~Live(Other(c)) =>
                      LET new == len(mul(W, c, Other(c), n), Other(c))
                      IN  /\ new.st = "ok"
                          /\ StrictOf(new.w, Other(c)) = Repeat(StrictOf(full.w, c), n)
                          /\ Flat(new.w, c) = Flat(W, c)

\* C8 witness: after a multiplication split an iterator, a Length call
\* drained it through every repetition.
C8_Witness ==
    /\ last.op = "Length"
    /\ last.st = "ok"
    /\ is_strict(W, last.c)
    /\ \E b \in 1..Len(heap) :
          /\ heap[b].kind = "teebuf"
          /\ Len(heap[b].buf) = MaxLen
          /\ Cardinality({t \in 1..Len(heap) : heap[t].kind = "tee"
                              /\ heap[t].inner = b /\ heap[t].pos = MaxLen}) = MaxCount
          /\ Len(StrictOf(W, last.c)) >= MaxCount * MaxLen

\* C9: for every materialization state and any number of sources, also for
\* a container that was reversed before, full materialization after
\* reverse() is the reverse of the full materialization without it.
C9_ReversalLaw ==
    \A c \in LiveNames :
        LET full == len(W, c)
            rev == len(reverse(W, c), c)
        IN  full.st = "ok" =>
                /\ rev.st = "ok"
                /\ StrictOf(rev.w, c) = Rev(StrictOf(full.w, c))
                /\ Flat(reverse(W, c), c) = Rev(Flat(W, c))

\* C9 witness: after reverse() of a container with an active iterator and
\* a pending entry, a Length call drained the reversed sources.
C9_Witness ==
    /\ last.op = "Length"
    /\ last.st = "ok"
    /\ is_strict(W, last.c)
    /\ Cardinality({g \in 1..Len(heap) : heap[g].kind = "rev" /\ heap[g].st = "done"
                        /\ Len(heap[g].buf) = MaxLen}) >= 2
    /\ \E g \in 1..Len(heap) : heap[g].kind = "rev" /\ heap[g].inner \in Srcs(W)
    /\ Len(StrictOf(W, last.c)) >= 2 * MaxLen
    /\ StrictOf(W, last.c)[1] > StrictOf(W, last.c)[2]

Without(s, i) == SubSeq(s, 1, i) \o SubSeq(s, i + 2, Len(s))

\* C10 as stated: Delete(i), 0 <= i < final length, removes exactly the
\* element at logical position i, and pulls exactly the not yet pulled
\* upstream elements of the positions <= i: what lies beyond i stays
\* unpulled.
C10_DeletePullsOnlyUpToIndex ==
    \A c \in LiveNames, i \in 0..MaxIdx :
        LET r == delitem(W, c, i)
        IN  InScope(W, c, i, r) =>
                /\ r.st = "ok"
                /\ Flat(r.w, c) = Without(Flat(W, c), i)
                /\ PulledBetween(W, r.w) = OrigUpTo(W, c, i)

\* C10 amended: Delete(i), 0 <= i < final length, removes exactly the
\* element at logical position i and pulls exactly the upstream elements
\* that the positions <= i need: their own not yet pulled elements and, for
\* a position in a source re-queued by reverse(), the whole rest of that
\* source.  The other container is left as it was.
C10_DeletePullsWhatIndexNeeds ==
    \A c \in LiveNames, i \in 0..MaxIdx :
        LET r == delitem(W, c, i)
        IN  InScope(W, c, i, r) =>
                /\ r.st = "ok"
                /\ Flat(r.w, c) = Without(Flat(W, c), i)
                /\ PulledBetween(W, r.w) = NeedUpTo(W, c, i)
                /\ Live(Other(c)) => Flat(r.w, Other(c)) = Flat(W, Other(c))

\* C10 witness: a Delete at the index just behind a drained iterator took
\* the first element of what followed and left a later iterator untouched.
C10_Witness ==
    /\ last.op = "Delete"
    /\ last.arg = MaxLen
    /\ last.st = "ok"
    /\ Len(StrictOf(W, last.c)) >= MaxLen
    /\ \E s, t \in Srcs(W) :
          /\ Pulled(W, s) = MaxLen
          /\ SubSeq(StrictOf(W, last.c), 1, MaxLen) = heap[s].buf
          /\ Pulled(W, t) = 0
          /\ heap[t].buf # <<>>
          /\ t \in {ll[last.c].tail} \cup {ll[last.c].tails[k] : k \in DOMAIN ll[last.c].tails}

\* the values a slice bound takes in the claims: None, or -2..MaxIdx
Bounds == {<<>>} \cup {<<v>> : v \in (-2)..MaxIdx}

AllSlices == {Sl(a, b, st) : a \in Bounds, b \in Bounds, st \in {<<>>, <<-1>>, <<2>>}}

\* C11 as stated: Get, Set and Delete with a slice materialize up to one
\* index before they touch the strict store: stop - 1 for a positive step
\* when stop is given, start for a negative step when start is given,
\* everything otherwise and when that index is negative.
C11_SliceForcesOneIndex ==
    \A c \in LiveNames, sl \in AllSlices :
        LET need == make_strict(W, c, SliceNeeds(sl))
            forced == StrictOf(need.w, c)
            set == ListSetSlice(forced, sl, <<fresh + 1>>)
        IN  need.st = "ok" =>
                /\ getitem_slice(W, c, sl) = R(need.w, "ok", ListGetSlice(forced, sl))
                /\ delitem_slice(W, c, sl)
                     = R(SetStrict(need.w, c, ListDelSlice(forced, sl)), "ok", 0)
                /\ setitem_slice(W, c, sl, <<fresh + 1>>)
                     = R(SetStrict(need.w, c, set.val), set.st, 0)

\* C12: Insert(i, v), 0 <= i <= final length, places v at logical position
\* i and pulls only what the positions <= i - 1 need (for a position in a
\* source re-queued by reverse(), the whole rest of that source): what was
\* lazy behind the insertion point is not pulled and stays lazy.
C12_InsertPullsOnlyBeforeIndex ==
    \A c \in LiveNames, i \in 0..MaxIdx :
        LET r == insert(W, c, i, fresh + 1)
        IN  (i <= Len(FlatO(W, c)) /\ r.st # "over") =>
                /\ r.st = "ok"
                /\ Flat(r.w, c) = ListInsert(Flat(W, c), i, fresh + 1)
                /\ PulledBetween(W, r.w) = NeedUpTo(W, c, i - 1)

\* C13 as stated: the boolean test is true iff the logical sequence has an
\* element, pulls at most one element in total from the iterator sources,
\* and pulls nothing when the strict store is not empty.
C13_BoolPullsAtMostOne ==
    \A c \in LiveNames :
        LET r == bool(W, c)
        IN  r.st # "over" =>
                /\ r.st = "ok"
                /\ r.val = (Flat(W, c) # <<>>)
                /\ Cardinality(PulledBetween(W, r.w)) <= 1
                /\ StrictOf(W, c) # <<>> => r.w = W

\* C13 amended: the boolean test is true iff the logical sequence has an
\* element and keeps the sequence; it pulls exactly what position 0 needs:
\* nothing when the strict store is not empty or the sequence is empty, one
\* element when position 0 lies in an iterator source, and the whole rest of
\* that source when reverse() re-queued it.
C13_BoolPullsWhatFirstNeeds ==
    \A c \in LiveNames :
        LET r == bool(W, c)
        IN  r.st # "over" =>
                /\ r.st = "ok"
                /\ r.val = (Flat(W, c) # <<>>)
                /\ Flat(r.w, c) = Flat(W, c)
                /\ PulledBetween(W, r.w)
                     = IF Flat(W, c) = <<>> THEN {} ELSE NeedUpTo(W, c, 0)
                /\ StrictOf(W, c) # <<>> => r.w = W

\* C13 witness: a boolean test pulled the first element of an iterator
\* source and left its second element unpulled.
C13_Witness ==
    /\ last.op = "Bool"
    /\ last.st = "ok"
    /\ Len(StrictOf(W, last.c)) = 1
    /\ \E s \in Srcs(W) :
          /\ s = ll[last.c].tail
          /\ Pulled(W, s) = 1
          /\ Len(heap[s].buf) >= 2

\* the lexicographic comparison of two sequences: -1, 0 or 1
Lex(s, t) ==
    LET n == IF Len(s) < Len(t) THEN Len(s) ELSE Len(t)
        d == {k \in 1..n : s[k] # t[k]}
    IN  IF d # {}
        THEN LET k == CHOOSE k \in d : \A j \in d : k <= j
             IN  IF s[k] < t[k] THEN -1 ELSE 1
        ELSE IF Len(s) < Len(t) THEN -1
        ELSE IF Len(s) > Len(t) THEN 1
        ELSE 0

\* plain lists around a sequence: itself, a proper prefix, an extension,
\* and two that differ from it in the last element
Around(s) ==
    {s, Append(s, 0)}
    \cup (IF s = <<>> THEN {}
          ELSE {SubSeq(s, 1, Len(s) - 1),
                [s EXCEPT ![Len(s)] = @ + 1],
                [s EXCEPT ![Len(s)] = @ - 1]})

\* the operands a container is compared with
Operands(c) ==
    {OtherList(s) : s \in Around(Flat(W, c))}
    \cup {OtherLl(d) : d \in LiveNames}

SeqOf(w, other) == IF other.t = "ll" THEN Flat(w, other.c) ELSE other.buf

\* C14: equality and the ordering comparisons of a container with a
\* container or a plain list give the lexicographic comparison of the two
\* final sequences, whatever sources each side was built from, and leave
\* both sequences as they were.
C14_CompareIsLexicographic ==
    \A c \in LiveNames :
        \A other \in Operands(c) :
            LET r == cmp_any(W, c, other)
                want == Lex(Flat(W, c), SeqOf(W, other))
            IN  r.st # "over" =>
                    /\ r = R(r.w, "ok", want)
                    /\ eq(W, c, other) = R(r.w, "ok", want = 0)
                    /\ ne(W, c, other) = R(r.w, "ok", want # 0)
                    /\ lt(W, c, other) = R(r.w, "ok", want < 0)
                    /\ le(W, c, other) = R(r.w, "ok", want <= 0)
                    /\ gt(W, c, other) = R(r.w, "ok", want > 0)
                    /\ ge(W, c, other) = R(r.w, "ok", want >= 0)
                    /\ \A d \in LiveNames : Flat(r.w, d) = Flat(W, d)

\* C14 witness: a container over an iterator compared less than its copy,
\* which had got one more element: a proper prefix, found by pulling.
C14_Witness ==
    /\ last.op = "Lt"
    /\ last.src = "ll"
    /\ last.arg = 1
    /\ Live(Other(last.c))
    /\ Flat(W, last.c) # <<>>
    /\ IsPrefix(Flat(W, last.c), Flat(W, Other(last.c)))
    /\ Len(Flat(W, last.c)) < Len(Flat(W, Other(last.c)))

\* C15: equality of a container with a value that is neither a container
\* nor a plain list gives not-equal without failing, an ordering comparison
\* with it fails with a type error, and neither pulls an element or changes
\* the container.
C15_IncompatibleOperand ==
    \A c \in LiveNames :
        /\ eq(W, c, OtherValue) = R(W, "ok", FALSE)
        /\ ne(W, c, OtherValue) = R(W, "ok", TRUE)
        /\ \A r \in {Out(cmp_any(W, c, OtherValue)), Out(lt(W, c, OtherValue)),
                      Out(le(W, c, OtherValue)), Out(gt(W, c, OtherValue)),
                      Out(ge(W, c, OtherValue))} :
              r = [w |-> W, st |-> "type"]

\* C15 witness: an ordering comparison with a value of another type failed
\* on a container over an iterator of which nothing has been pulled.
C15_Witness ==
    /\ last.op = "Lt"
    /\ last.src = "other"
    /\ last.st = "type"
    /\ StrictOf(W, last.c) = <<>>
    /\ ll[last.c].tail \in Srcs(W)
    /\ heap[ll[last.c].tail].buf # <<>>
    /\ \A s \in Srcs(W) : Pulled(W, s) = 0

\* C16 as stated: IndexOf(value, start, stop) gives what the index
\* operation of a plain list holding the final contents gives: the smallest
\* i with start <= i < stop whose element is value, or value-not-found;
\* the outcome does not depend on what was materialized before the call.
C16_IndexOfAsPlainList ==
    \A c \in LiveNames, v \in LookVals, start \in {0, 1}, stop \in StopArgs \cup {MaxLen} :
        LET r == index(W, c, v, start, stop)
            f == ListIndex(Flat(W, c), v, start, stop)
        IN  r.st # "over" =>
                /\ r.st = f.st
                /\ r.val = f.val
                /\ Flat(r.w, c) = Flat(W, c)

\* the logical position of the first occurrence of v in s, or -1
First(s, v) ==
    LET hits == {k \in 1..Len(s) : s[k] = v}
    IN  IF hits = {} THEN -1 ELSE (CHOOSE k \in hits : \A j \in hits : k <= j) - 1

\* C17 as stated: Contains(value) is true iff value occurs in the logical
\* sequence; with the first occurrence at position k no iterator element of
\* a position > k is pulled; when the value is absent the sources are all
\* exhausted.
C17_ContainsStopsAtFirst ==
    \A c \in LiveNames, v \in LookVals :
        LET r == contains(W, c, v)
            k == First(Flat(W, c), v)
        IN  r.st # "over" =>
                /\ r.st = "ok"
                /\ r.val = (k >= 0)
                /\ Flat(r.w, c) = Flat(W, c)
                /\ k >= 0 => PulledBetween(W, r.w) \subseteq OrigUpTo(W, c, k)
                /\ k < 0 => is_strict(r.w, c)

\* C17 amended: Contains(value) is true iff value occurs in the logical
\* sequence and keeps the sequence; with the first occurrence at position k
\* it pulls exactly what the positions <= k need (for a position in a source
\* re-queued by reverse(), the whole rest of that source), and nothing when
\* the strict store holds the value; when the value is absent the sources
\* are all exhausted.
C17_ContainsPullsWhatFirstNeeds ==
    \A c \in LiveNames, v \in LookVals :
        LET r == contains(W, c, v)
            k == First(Flat(W, c), v)
        IN  r.st # "over" =>
                /\ r.st = "ok"
                /\ r.val = (k >= 0)
                /\ Flat(r.w, c) = Flat(W, c)
                /\ k >= 0 => PulledBetween(W, r.w) = NeedUpTo(W, c, k)
                /\ k < 0 => is_strict(r.w, c)

\* C17 witness: a Contains call found its value as the first element of an
\* iterator source, pulled that element only, and left a later source
\* untouched.
C17_Witness ==
    /\ last.op = "Contains"
    /\ last.arg = 1
    /\ StrictOf(W, last.c) = <<1>>
    /\ \E s, t \in Srcs(W) :
          /\ s = ll[last.c].tail
          /\ Pulled(W, s) = 1
          /\ Len(heap[s].buf) >= 2
          /\ Pulled(W, t) = 0
          /\ heap[t].buf # <<>>
          /\ t \in {ll[last.c].tails[j] : j \in DOMAIN ll[last.c].tails}

\* the heap cells a lazylist object refers to
Refs(w, c) ==
    {w.ll[c].strict, w.ll[c].tail} \cup {w.ll[c].tails[k] : k \in DOMAIN w.ll[c].tails}

\* the containers the caller holds, the result of a concatenation included
Users == {c \in Names \cup {"z"} : Live(c)}

\* C18: Concat(a, b), b a container or a plain list, gives a new container
\* whose contents are a's followed by b's and pulls no element; afterwards
\* no call on the result changes the contents of a or b, no call on a or b
\* changes the contents of the result, and the result does not refer to
\* the caller's list.
C18_ConcatIsIndependent ==
    /\ ~Live("z") =>
          \A a \in LiveNames :
              /\ \A d \in LiveNames :
                    LET w1 == add_ll(W, a, d, "z", "t")
                    IN  /\ SamePulled(W, w1)
                        /\ Flat(w1, "z") = Flat(W, a) \o Flat(W, d)
                        /\ \A c \in LiveNames : Flat(w1, c) = Flat(W, c)
              /\ \A n \in {0, MaxLen} :
                    LET w0 == Arg(W, "list", fresh, n, -1)
                        w1 == add_list(w0, a, Len(w0.heap), "z")
                    IN  /\ SamePulled(W, w1)
                        /\ Flat(w1, "z") = Flat(W, a) \o Data(fresh, n)
                        /\ \A c \in LiveNames : Flat(w1, c) = Flat(W, c)
                        /\ \A c \in Objs : Len(w0.heap) \notin Refs(w1, c)
                        /\ w1.heap[Len(w0.heap)] = w0.heap[Len(w0.heap)]
    /\ Live("z") =>
          \A c \in Users :
              LET pre == [d \in Users \ {c} |-> Flat(W, d)]
              IN  \A w \in AfterCall(c) : \A d \in Users \ {c} : Flat(w, d) = pre[d]

\* C18 witness: x + y was made of a container and its copy, which share an
\* iterator, and a Length call on the result has pulled everything: the
\* result holds the contents of x and then of y while x has materialized
\* nothing.
C18_Witness ==
    /\ Live("z")
    /\ Live("y")
    /\ last.op = "Length"
    /\ last.c = "z"
    /\ is_strict(W, "z")
    /\ StrictOf(W, "z") = Flat(W, "x") \o Flat(W, "y")
    /\ Len(StrictOf(W, "z")) >= 2 * MaxLen
    /\ StrictOf(W, "x") = <<>>
    /\ \E s \in Srcs(W) : Pulled(W, s) = MaxLen

\* the position and the container of the caller's iterator
ItPos == heap[its[1]].pos

ItOf == heap[its[1]].name

\* no source is never-ending
AllEnd == \A s \in Srcs(W) : ~heap[s].inf

\* one next() of the caller's iterator yields the element at its position
\* of the logical sequence as it is now and moves on by one, or stops at
\* the end and stays where it is
YieldsByPosition(r) ==
    LET f == Flat(W, ItOf)
    IN  /\ Flat(r.w, ItOf) = f
        /\ IF ItPos < Len(f)
           THEN r.st = "ok" /\ r.val = f[ItPos + 1] /\ r.w.heap[its[1]].pos = ItPos + 1
           ELSE r.st = "stop" /\ r.w.heap[its[1]].pos = ItPos

StepPullsOne ==
    its # <<>> =>
        LET r == NextIt(W, its[1])
        IN  r.st # "over" =>
                /\ YieldsByPosition(r)
                /\ Cardinality(PulledBetween(W, r.w)) <= 1

StepPullsWhatPositionNeeds ==
    its # <<>> =>
        LET r == NextIt(W, its[1])
        IN  r.st # "over" =>
                /\ YieldsByPosition(r)
                /\ PulledBetween(W, r.w)
                     = IF ItPos < Len(Flat(W, ItOf)) THEN NeedUpTo(W, ItOf, ItPos) ELSE {}

\* an iterator that is stepped on and on gets to the end of the sequence as
\* it is then, whatever was added since it was started
ReachesTheEnd ==
    (its # <<>> /\ AllEnd) ~> (its # <<>> /\ ItPos = Len(Flat(W, ItOf)))

\* C19 as stated: an iterator is a live view: every step yields the element
\* at the iterator's position of the logical sequence as it is now, pulling
\* at most one new element, and the elements of sources added after the
\* iterator was started are reached by it after all earlier elements.
C19_IteratorPullsOnePerStep == []StepPullsOne /\ ReachesTheEnd

\* C19 amended: every step yields the element at the iterator's position of
\* the logical sequence as it is now and pulls exactly what that position
\* needs: at most one new element, or the whole rest of a source that
\* reverse() re-queued; the elements of sources added after the iterator
\* was started are reached by it after all earlier elements.
C19_IteratorIsLiveView == []StepPullsWhatPositionNeeds /\ ReachesTheEnd

\* C19 witness: an iterator started before an iterator source was added has
\* yielded everything that was there before and an element of the new
\* source, of which more is left.
C19_Witness ==
    /\ its # <<>>
    /\ last.op = "IterNext"
    /\ last.st = "ok"
    /\ ItPos = Len(StrictOf(W, ItOf))
    /\ \E s \in Srcs(W) :
          /\ s > its[1]
          /\ Pulled(W, s) >= 1
          /\ Pulled(W, s) < Len(heap[s].buf)
          /\ ItPos > Pulled(W, s)

\* the heap cells that a lazylist object reaches
RECURSIVE Under(_, _), Cells(_, _)
Under(w, id) ==
    IF id = None THEN {}
    ELSE {id} \cup Under(w, w.heap[id].inner)
              \cup (IF w.heap[id].kind = "llit" THEN Cells(w, w.heap[id].name) ELSE {})

Cells(w, c) == UNION {Under(w, id) : id \in Refs(w, c)}

\* the lists that the caller holds
Callers(w) == {id \in 1..Len(w.heap) : w.heap[id].kind = "list" /\ w.heap[id].st = "caller"}

\* the caller changes its list id: appends to it, or empties it
Mutated(w, id) ==
    {[w EXCEPT !.heap[id].buf = Append(@, 0)], [w EXCEPT !.heap[id].buf = <<>>]}

\* C20: the container never aliases a list L that the caller passed to
\* Construct, Extend or InPlaceConcat, spliced at once or still pending: no
\* container reaches L, a later change of L by the caller leaves every
\* container's contents as they are, and no call on a container changes L.
C20_NoAliasOfCallerList ==
    /\ \A id \in Callers(W) :
          /\ \A c \in Objs : id \notin Cells(W, c)
          /\ \A c \in Users : \A w \in Mutated(W, id) : Flat(w, c) = Flat(W, c)
          /\ \A c \in Users : \A w \in AfterCall(c) : w.heap[id] = heap[id]
    /\ \A c \in LiveNames, n \in {0, MaxLen} :
          LET w0 == Arg(W, "list", fresh, n, -1)
              id == Len(w0.heap)
              w1 == add_tail(w0, c, id)
          IN  /\ w1.heap[id] = w0.heap[id]
              /\ id \notin Cells(w1, c)
              /\ Flat(w1, c) = Flat(W, c) \o Data(fresh, n)
              /\ \A w \in Mutated(w1, id) : Flat(w, c) = Flat(w1, c)

\* C20 witness: a list was passed to Extend while an iterator was active,
\* so that its copy is pending, and an Append then changed that pending
\* copy in place: the caller's list is as it was.
C20_Witness ==
    /\ last.op = "Append"
    /\ ll[last.c].tail \in Srcs(W)
    /\ \E id \in Callers(W) :
          \E k \in DOMAIN ll[last.c].tails :
              /\ IsList(W, ll[last.c].tails[k])
              /\ heap[id].buf # <<>>
              /\ heap[ll[last.c].tails[k]].buf = Append(heap[id].buf, last.arg)

\* C21: Get(i) with i >= 0 at or past the final length fails with the
\* out-of-range error of a plain list; materializing raises nothing on the
\* shortfall, and after the failed read the container is fully strict and
\* holds its complete contents, unchanged.
C21_GetPastEndFails ==
    \A c \in LiveNames, i \in (0..MaxIdx) \cup {MaxSize} :
        LET r == getitem(W, c, i)
            m == make_strict(W, c, Idx(i))
        IN  (i >= Len(Flat(W, c)) /\ r.st # "over") =>
                /\ m.st = "ok"
                /\ r.st = "index"
                /\ r.st = ListGet(Flat(W, c), i).st
                /\ r.w = m.w
                /\ is_strict(r.w, c)
                /\ StrictOf(r.w, c) = Flat(W, c)
                /\ \A d \in LiveNames : Flat(r.w, d) = Flat(W, d)

\* C21 witness: a Get past the end of a container over an iterator failed
\* after pulling everything the iterator had.
C21_Witness ==
    /\ last.op = "Get"
    /\ last.st = "index"
    /\ is_strict(W, last.c)
    /\ StrictOf(W, last.c) # <<>>
    /\ \E s \in Srcs(W) : Pulled(W, s) = MaxLen /\ StrictOf(W, last.c) = heap[s].buf

\* C22: Pop(i), i defaulting to the last position, returns the element at
\* logical position i of the final sequence and removes exactly that
\* element, the others keeping their order; on an empty logical sequence
\* (and for any position outside it) it fails with the out-of-range error
\* and leaves the sequence as it was.
C22_PopAsPlainList ==
    \A c \in LiveNames, i \in (-2)..MaxIdx :
        LET r == pop(W, c, i)
            p == ListPop(Flat(W, c), i)
        IN  r.st # "over" =>
                /\ r.st = p.st
                /\ r.val = p.val
                /\ Flat(r.w, c) = p.rest

\* C22 witness: Pop(1) took the second element of a container over an
\* iterator, and a later iterator source is still untouched.
C22_Witness ==
    /\ last.op = "Pop"
    /\ last.arg = 1
    /\ last.st = "ok"
    /\ Len(StrictOf(W, last.c)) = 1
    /\ \E t \in Srcs(W) :
          /\ Pulled(W, t) = 0
          /\ heap[t].buf # <<>>
          /\ t \in Cells(W, last.c)

\* C23: hashing a container fails with the unhashable-type error in every
\* materialization state, pulls nothing from any source and leaves the
\* container's state as it was.
C23_HashFails ==
    \A c \in LiveNames :
        LET r == hash(W, c)
        IN  /\ r.st = "type"
            /\ r.w = W
            /\ \A s \in Srcs(W) : Pulled(r.w, s) = Pulled(W, s)

\* C23 witness: a hash was refused on a container that is partly
\* materialized, with elements still to pull.
C23_Witness ==
    /\ last.op = "Hash"
    /\ last.st = "type"
    /\ StrictOf(W, last.c) # <<>>
    /\ ~is_strict(W, last.c)
    /\ Len(StrictOf(W, last.c)) < Len(Flat(W, last.c))

\* C24: in the lazy mapping a deferred value given at construction is
\* invoked at most once over any sequence of operations: the first Get of
\* its key invokes it, moves the key from unresolved to resolved and caches
\* the result; every later Get of the key returns the cached result without
\* invoking it again; a Get of another key, or a Get that fails with the
\* missing-key error, invokes and resolves nothing.
C24_DeferredInvokedOnce ==
    /\ \A t \in Thunks : dct.called[t] <= 1
    /\ \A k \in Keys :
         LET r == dict_getitem(dct, k)
             t == dct.unresolved[k]
         IN  CASE EntryKind(dct, k) = "none" ->
                    r.st = "key" /\ r.d = dct
               [] EntryKind(dct, k) = "deferred" ->
                    /\ r.st = "ok"
                    /\ r.val = <<1, t>>
                    /\ r.d = [dct EXCEPT !.called[t] = 1, !.resolved[k] = r.val,
                                         !.unresolved[k] = 0]
                    /\ dict_getitem(r.d, k) = DR(r.d, "ok", r.val)
               [] EntryKind(dct, k) = "resolved" ->
                    r.st = "ok" /\ r.d = dct /\ r.val = dct.resolved[k]

\* C24 witness: a Get returned the cached result of a deferred value that an
\* earlier Get had invoked, while another deferred value is still unresolved.
C24_Witness ==
    /\ last.op = "DictGet"
    /\ last.src = "resolved"
    /\ last.arg = 1
    /\ last.st = "ok"
    /\ \E k \in Keys : dct.unresolved[k] # 0

\* what the leading plain-sequence entries of a queue hold, and the queue
\* from its first iterator entry on
RECURSIVE LeadingLists(_, _), FromFirstIterator(_, _)
LeadingLists(w, tails) ==
    IF tails = <<>> \/ ~IsList(w, tails[1]) THEN <<>>
    ELSE w.heap[tails[1]].buf \o LeadingLists(w, Tl(tails))

FromFirstIterator(w, tails) ==
    IF tails = <<>> \/ ~IsList(w, tails[1]) THEN tails
    ELSE FromFirstIterator(w, Tl(tails))

\* C25: the advance rule pops pending entries from the front of the queue;
\* each popped plain-sequence entry is appended to the strict store in full
\* and never becomes the active source; the first popped iterator entry
\* becomes the active source and the entries behind it stay pending in
\* their order; with no iterator entry in the queue the container ends
\* fully strict.  Nothing is pulled.
C25_AdvanceRule ==
    \A c \in LiveNames :
        LET l == W.ll[c]
            w2 == advance_tail(W, c)
            rest == FromFirstIterator(W, l.tails)
        IN  /\ StrictOf(w2, c) = StrictOf(W, c) \o LeadingLists(W, l.tails)
            /\ w2.ll[c].tail # None => ~IsList(w2, w2.ll[c].tail)
            /\ IF rest = <<>>
               THEN w2.ll[c].tail = None /\ w2.ll[c].tails = <<>> /\ is_strict(w2, c)
               ELSE w2.ll[c].tail = rest[1] /\ w2.ll[c].tails = Tl(rest)
            /\ SamePulled(W, w2)
            /\ \A d \in LiveNames \ {c} : w2.ll[d] = W.ll[d]

\* C25 witness: a Get exhausted an iterator, the advance spliced the list
\* queued behind it into the strict store and made the iterator behind the
\* list the active source, with nothing pulled from it yet.
C25_Witness ==
    /\ last.op = "Get"
    /\ last.st = "ok"
    /\ LET l == W.ll[last.c]
           strict == StrictOf(W, last.c)
       IN  /\ l.tail \in Srcs(W)
           /\ Pulled(W, l.tail) = 0
           /\ strict # <<>>
           /\ \A t \in Srcs(W) :
                 \A k \in 1..Pulled(W, t) : heap[t].buf[k] # strict[Len(strict)]
           /\ \E s \in Srcs(W) \ {l.tail} :
                 /\ Pulled(W, s) = Len(heap[s].buf)
                 /\ Pulled(W, s) >= 1
                 /\ heap[s].buf[Len(heap[s].buf)] < strict[Len(strict)]

\* no container of the world w has entries queued behind an absent active
\* source
NoQueueWithoutActive(w) ==
    \A c \in Objs : (w.ll[c].live /\ w.ll[c].tail = None) => w.ll[c].tails = <<>>

\* the worlds that one more public call on container c can give, for the
\* calls that are not steps of the specification (Insert, Pop, Clear, the
\* searches, a comparison, the slice calls, a step of an iterator at any
\* position) and for Copy, the in-place multiplication and Reverse
AnyCallOn(c) ==
    {Out(insert(W, c, i, fresh + 1)) : i \in InsIdxs}
    \cup {Out(pop(W, c, i)) : i \in PopIdxs}
    \cup {Done(clear(W, c)), Done(copy(W, c, "z")), Done(reverse(W, c))}
    \cup {Done(imul(W, c, n)) : n \in Counts}
    \cup {Out(contains(W, c, v)) : v \in LookVals}
    \cup {Out(index(W, c, v, 0, MaxSize)) : v \in LookVals}
    \cup (IF Live(Other(c)) THEN {Out(cmp(W, c, Other(c)))} ELSE {})
    \cup {Out(getitem_slice(W, c, sl)) : sl \in Slices}
    \cup {Out(delitem_slice(W, c, sl)) : sl \in Slices}
    \cup {Out(setitem_slice(W, c, sl, <<fresh + 1>>)) : sl \in Slices}
    \cup {Out(LlitStep(W, c, pos)) : pos \in 0..MaxIdx}

\* C26: after construction and after every public call (Append, Extend,
\* Insert, Set, Delete, Pop, Clear, Copy for both containers, the
\* multiplications for every count from 0, Reverse and every read), a
\* container whose active source is absent has an empty pending queue, so
\* that no materialization returns early with sources still queued.  The
\* first conjunct covers construction and the steps of the specification,
\* the second one more call of every other kind.
C26_NoQueueWithoutActiveSource ==
    /\ NoQueueWithoutActive(W)
    /\ \A c \in LiveNames :
          \A r \in AnyCallOn(c) : r.st # "over" => NoQueueWithoutActive(r.w)

\* C26 witness: a multiplication by zero emptied the only container while it
\* still had an iterator with elements to pull; it is left with no active
\* source and nothing queued.
C26_Witness ==
    /\ last.op = "IMul"
    /\ last.arg = 0
    /\ LiveNames = {last.c}
    /\ W.ll[last.c].tail = None
    /\ W.ll[last.c].tails = <<>>
    /\ \E s \in Srcs(W) : Pulled(W, s) < Len(heap[s].buf)

\* C27: after any sequence of public operations (in-place multiplication,
\* multiplication, Copy and Reverse on a partly materialized container
\* among them), Append(v) lengthens the final, fully materialized sequence
\* by exactly one element, v is its last element, and the elements before
\* it are what they would have been without the Append.
C27_AppendAddsOneLast ==
    \A c \in LiveNames :
        LET v == fresh + 1
            w2 == append(W, c, v)
        IN  /\ Len(Flat(w2, c)) = Len(Flat(W, c)) + 1
            /\ Flat(w2, c) = Append(Flat(W, c), v)

\* C28: Get(slice) returns, for every slice (positive or negative step,
\* start and stop each absent, non-negative or negative) and in every
\* materialization state, the list that slicing a plain list of the
\* container's final contents returns (for sources that end).
C28_GetSliceAsPlainList ==
    \A c \in LiveNames, sl \in AllSlices :
        LET r == getitem_slice(W, c, sl)
        IN  AllEnd =>
                /\ r.st = "ok"
                /\ r.val = ListGetSlice(Flat(W, c), sl)

\* C29: Append(v) pulls no element from any source and follows three cases:
\* on a fully strict container v is appended to the strict store;
\* otherwise, when the last pending entry is a plain sequence, v is
\* appended to that entry in place and the queue keeps its length;
\* otherwise a new one-element sequence is queued last.  In the last two
\* cases the strict store and the active source are unchanged.
C29_AppendThreeCases ==
    \A c \in LiveNames :
        LET v == fresh + 1
            l == W.ll[c]
            w2 == append(W, c, v)
            l2 == w2.ll[c]
            n == Len(l.tails)
        IN  /\ SamePulled(W, w2)
            /\ l2.strict = l.strict
            /\ l2.tail = l.tail
            /\ IF is_strict(W, c)
               THEN /\ StrictOf(w2, c) = Append(StrictOf(W, c), v)
                    /\ l2.tails = <<>>
                    /\ Len(w2.heap) = Len(W.heap)
               ELSE IF n > 0 /\ IsList(W, l.tails[n])
               THEN /\ StrictOf(w2, c) = StrictOf(W, c)
                    /\ l2.tails = l.tails
                    /\ w2.heap[l.tails[n]].buf = Append(W.heap[l.tails[n]].buf, v)
                    /\ Len(w2.heap) = Len(W.heap)
               ELSE /\ StrictOf(w2, c) = StrictOf(W, c)
                    /\ Len(l2.tails) = n + 1
                    /\ SubSeq(l2.tails, 1, n) = l.tails
                    /\ IsList(w2, l2.tails[n + 1])
                    /\ w2.heap[l2.tails[n + 1]].buf = <<v>>
                    /\ l2.tails[n + 1] > Len(W.heap)

\* C29 witness: an Append put its value at the end of the list that was
\* the last pending entry, behind an active iterator that nothing was
\* pulled from.
C29_Witness ==
    /\ last.op = "Append"
    /\ LET l == W.ll[last.c]
           n == Len(l.tails)
       IN  /\ l.tail \in Srcs(W)
           /\ Pulled(W, l.tail) = 0
           /\ n > 0
           /\ IsList(W, l.tails[n])
           /\ Len(heap[l.tails[n]].buf) > 1
           /\ heap[l.tails[n]].buf[Len(heap[l.tails[n]].buf)] = last.arg

\* the entries of container c in the order they are drained: the active
\* source, then the pending queue
Queue(w, c) ==
    (IF w.ll[c].tail # None THEN <<w.ll[c].tail>> ELSE <<>>) \o w.ll[c].tails

\* the values an entry still has to give
Left(w, id) == LET f == RemO(w, id) IN [k \in DOMAIN f |-> f[k].v]

RECURSIVE LeftBefore(_, _, _)
LeftBefore(w, q, k) == IF k <= 1 THEN 0 ELSE Len(Left(w, q[k - 1])) + LeftBefore(w, q, k - 1)

\* w1 is w after Reverse of c: a generator, not started, for each pending
\* entry in reverse order, then one for the formerly active source, then
\* the reversed former strict store as a list; with no source at all the
\* container is strict, its store reversed
Requeued(w, c, w1) ==
    LET srcs == Queue(w, c)
        n == Len(srcs)
        old == StrictOf(w, c)
        q1 == Queue(w1, c)
    IN  IF n = 0
        THEN is_strict(w1, c) /\ StrictOf(w1, c) = Rev(old)
        ELSE /\ StrictOf(w1, c) = <<>>
             /\ w1.ll[c].tail # None
             /\ Len(q1) = n + (IF old = <<>> THEN 0 ELSE 1)
             /\ \A k \in 1..n :
                   /\ w1.heap[q1[k]].kind = "rev"
                   /\ w1.heap[q1[k]].st = "new"
                   /\ w1.heap[q1[k]].inner = srcs[n + 1 - k]
             /\ old # <<>> =>
                   IsList(w1, q1[n + 1]) /\ w1.heap[q1[n + 1]].buf = Rev(old)

\* the generators among the entries of c in w1, by position
Gens(w1, c) ==
    {k \in 1..Len(Queue(w1, c)) : w1.heap[Queue(w1, c)[k]].kind = "rev"}

\* r is a read of c in w1: a generator that was started has drained its
\* source as a whole and every generator before it is finished; the source
\* of a generator that was not started is as it was
DrainedInOrder(w1, c, r) ==
    LET q1 == Queue(w1, c)
    IN  \A k \in Gens(w1, c) :
            LET in == w1.heap[q1[k]].inner
            IN  IF r.w.heap[q1[k]].st # "new"
                THEN /\ \A j \in 1..(k - 1) : r.w.heap[q1[j]].st = "done"
                     /\ IsList(w1, in) \/ Left(r.w, in) = <<>>
                ELSE Left(r.w, in) = Left(w1, in)

\* the read r of position i started only the generators it needed: the
\* entries before a started one hold no more than i elements together
StartedAsNeeded(w1, c, r, i) ==
    LET q1 == Queue(w1, c)
    IN  \A k \in Gens(w1, c) :
            r.w.heap[q1[k]].st # "new" => LeftBefore(w1, q1, k) <= i

\* the read r pulled from no source but the one behind the first entry, the
\* originally last source
PulledFromFirstOnly(w1, c, r) ==
    LET q1 == Queue(w1, c)
    IN  \A e \in PulledBetween(w1, r.w) : q1 # <<>> /\ e[1] \in Under(w1, q1[1])

\* no generator of a pending queue has been started
PendingNotStarted ==
    \A c \in LiveNames :
        \A k \in 1..Len(ll[c].tails) :
            heap[ll[c].tails[k]].kind = "rev" => heap[ll[c].tails[k]].st = "new"

\* C30 as stated: Reverse() pulls nothing; it re-queues the pending sources
\* in reverse order, then the formerly active source, then the reversed
\* former strict store last; afterwards the sources are drained in the
\* reverse of their original order, each as a unit, and the first read
\* after Reverse pulls only from the originally last source.
C30_FirstReadPullsLastSourceOnly ==
    /\ PendingNotStarted
    /\ \A c \in LiveNames :
          With(reverse(W, c), LAMBDA w1 :
              /\ SamePulled(W, w1)
              /\ Requeued(W, c, w1)
              /\ \A i \in 0..MaxIdx :
                    With(getitem(w1, c, i), LAMBDA r :
                        r.st # "over" =>
                            /\ DrainedInOrder(w1, c, r)
                            /\ i = 0 => PulledFromFirstOnly(w1, c, r))
              /\ With(bool(w1, c), LAMBDA r :
                    r.st # "over" =>
                        DrainedInOrder(w1, c, r) /\ PulledFromFirstOnly(w1, c, r)))

\* C30: Reverse() pulls nothing; it re-queues the pending sources in
\* reverse order, then the formerly active source, then the reversed former
\* strict store last; afterwards the sources are drained in the reverse of
\* their original order, each as a unit, and a read of position i after
\* Reverse goes on to the source before only when the sources drained so
\* far held no more than i elements: the first read pulls from the
\* originally last source, and from an earlier one only while the later
\* ones turned out empty.
C30_ReverseDrainsLastSourceFirst ==
    /\ PendingNotStarted
    /\ \A c \in LiveNames :
          With(reverse(W, c), LAMBDA w1 :
              /\ SamePulled(W, w1)
              /\ Requeued(W, c, w1)
              /\ \A i \in 0..MaxIdx :
                    With(getitem(w1, c, i), LAMBDA r :
                        r.st # "over" =>
                            /\ DrainedInOrder(w1, c, r)
                            /\ StartedAsNeeded(w1, c, r, i))
              /\ With(bool(w1, c), LAMBDA r :
                    r.st # "over" =>
                        DrainedInOrder(w1, c, r) /\ StartedAsNeeded(w1, c, r, 0)))

\* C30 witness: after a Reverse of a container over two iterators, Get(0)
\* drained the originally last one as a whole and holds its last element;
\* the generator of the other one is queued, not started, and nothing was
\* pulled from its iterator.
C30_Witness ==
    /\ last.op = "Get"
    /\ last.arg = 0
    /\ last.st = "ok"
    /\ LET l == W.ll[last.c]
       IN  /\ l.tail # None
           /\ heap[l.tail].kind = "rev"
           /\ heap[l.tail].st = "run"
           /\ heap[l.tail].inner \in Srcs(W)
           /\ Pulled(W, heap[l.tail].inner) = MaxLen
           /\ l.tails # <<>>
           /\ heap[l.tails[1]].kind = "rev"
           /\ heap[l.tails[1]].st = "new"
           /\ heap[l.tails[1]].inner \in Srcs(W)
           /\ Pulled(W, heap[l.tails[1]].inner) = 0
           /\ heap[heap[l.tails[1]].inner].buf # <<>>
           /\ heap[l.tails[1]].inner < heap[l.tail].inner

\* the position at which a comparison of the sequences s and t is decided:
\* the first position where they differ, or the length of the shorter one
DecidedAt(s, t) ==
    LET n == IF Len(s) < Len(t) THEN Len(s) ELSE Len(t)
        d == {k \in 1..n : s[k] # t[k]}
    IN  IF d # {} THEN (CHOOSE k \in d : \A j \in d : k <= j) - 1 ELSE n

\* the upstream elements that are the not yet pulled elements of the
\* positions 0..k of an operand, and those that producing these positions
\* pulls (a plain list has none)
OrigOf(w, other, k) ==
    IF other.t # "ll" THEN {}
    ELSE LET f == FlatO(w, other.c)
         IN  {f[j].o : j \in 1..(IF k + 1 < Len(f) THEN k + 1 ELSE Len(f))} \ {<<0, 0>>}

NeedOf(w, other, k) ==
    IF other.t # "ll" THEN {}
    ELSE LET f == FlatO(w, other.c)
         IN  UNION {f[j].need : j \in 1..(IF k + 1 < Len(f) THEN k + 1 ELSE Len(f))}

\* C31 as stated: equality and the ordering comparisons stop at the first
\* differing pair: with the first difference at position k no element at a
\* position greater than k is pulled from either side, and with one side a
\* proper prefix of length n of the other at most the first n + 1 elements
\* of the longer side are pulled.
C31_CompareStopsAtFirstDifference ==
    \A c \in LiveNames :
        \A other \in Operands(c) :
            LET r == cmp_any(W, c, other)
                k == DecidedAt(Flat(W, c), SeqOf(W, other))
            IN  r.st # "over" =>
                    PulledBetween(W, r.w)
                        \subseteq (OrigOf(W, OtherLl(c), k) \cup OrigOf(W, other, k))

\* C31: equality and the ordering comparisons stop at the first differing
\* pair: with the first difference at position k, or with the shorter side
\* ending at position k, exactly the upstream elements that the positions
\* <= k of the two sides need are pulled: the elements at these positions
\* and, for a position in a source re-queued by reverse(), the whole rest
\* of that source; every other element stays unpulled.
C31_ComparePullsWhatDecidingNeeds ==
    \A c \in LiveNames :
        \A other \in Operands(c) :
            LET r == cmp_any(W, c, other)
                k == DecidedAt(Flat(W, c), SeqOf(W, other))
            IN  r.st # "over" =>
                    /\ r.st = "ok"
                    /\ PulledBetween(W, r.w)
                         = (NeedOf(W, OtherLl(c), k) \cup NeedOf(W, other, k))
                    /\ lt(W, c, other).w = r.w
                    /\ eq(W, c, other).w = r.w

\* C31 witness: a comparison of two containers found the left one to be a
\* proper prefix of the right one; the left one is exhausted, the right
\* one holds one element more and still has elements to pull.
C31_Witness ==
    /\ last.op = "Lt"
    /\ last.src = "ll"
    /\ last.arg = 1
    /\ Live(Other(last.c))
    /\ is_strict(W, last.c)
    /\ StrictOf(W, last.c) # <<>>
    /\ Len(StrictOf(W, Other(last.c))) = Len(StrictOf(W, last.c)) + 1
    /\ Len(Flat(W, Other(last.c))) > Len(StrictOf(W, Other(last.c)))
    /\ \E s \in Srcs(W) : Pulled(W, s) < Len(heap[s].buf)

\* C32: any number of iterators obtained from one container and stepped in
\* any interleaving each yield the complete logical sequence from position
\* 0 in order: an iterator that has yielded p elements yields the element
\* at position p next and stops at the end, whatever the other iterators
\* did, and its step leaves the sequence and the other iterators as they
\* were; every upstream element is pulled once overall: a step pulls what
\* its position needs and has not been pulled, and nothing when another
\* iterator has reached the position before.
C32_SharedIteratorsYieldAll ==
    \A k \in 1..Len(its) :
        LET it == its[k]
            c == heap[it].name
            p == heap[it].pos
            f == Flat(W, c)
        IN  With(NextIt(W, it), LAMBDA r :
                r.st # "over" =>
                    /\ \A d \in LiveNames : Flat(r.w, d) = Flat(W, d)
                    /\ IF p < Len(f)
                       THEN r.st = "ok" /\ r.val = f[p + 1] /\ r.w.heap[it].pos = p + 1
                       ELSE r.st = "stop" /\ r.w.heap[it].pos = p
                    /\ \A j \in 1..Len(its) :
                          j # k => r.w.heap[its[j]].pos = heap[its[j]].pos
                    /\ PulledBetween(W, r.w)
                         = IF p < Len(f) THEN NeedUpTo(W, c, p) ELSE {}
                    /\ p < Len(StrictOf(W, c)) => SamePulled(W, r.w)
                    /\ \A s \in Srcs(W) : Pulled(r.w, s) >= Pulled(W, s))

\* C32 witness: two iterators over one container; the one behind has just
\* yielded an element that the other had pulled before, and elements are
\* still to be pulled.
C32_Witness ==
    /\ Len(its) = 2
    /\ last.op = "IterNext"
    /\ last.st = "ok"
    /\ heap[its[1]].name = heap[its[2]].name
    /\ heap[its[1]].pos = 1
    /\ heap[its[2]].pos = 2
    /\ Len(StrictOf(W, last.c)) = 2
    /\ Len(Flat(W, last.c)) > 2
    /\ \E s \in Srcs(W) : Pulled(W, s) = 2

\* C33: whenever every source added to a container yields finitely many
\* elements, Length terminates, also when the container was extended with
\* itself; right after x.extend(x) or x += x on a container of n elements
\* Length returns 2n, as for a plain list.
C33_LengthAfterSelfExtension ==
    \A c \in LiveNames :
        With(len(W, c), LAMBDA r :
            r.st # "over" =>
                /\ r.st = "ok"
                /\ (last.op \in {"ExtendSelf", "IAddSelf"} /\ last.c = c
                        /\ last.arg >= 0)
                       => r.val = 2 * last.arg)

\* C34: Equals between two containers, or a container and a plain list,
\* never fails: it returns a boolean, the equality of the two sequences,
\* also when the first differing pair of elements has no ordering defined
\* between them (then not-equal, as a plain list would).
C34_EqualsNeverFails ==
    \A c \in LiveNames :
        \A other \in MixedArgs \cup {OtherLl(d) : d \in LiveNames} :
            With(eq(W, c, other), LAMBDA r :
                r.st # "over" =>
                    /\ r.st = "ok"
                    /\ r.val = (Flat(W, c) = SeqOf(W, other)))

====
